---- MODULE Spec2Model ----
(***************************************************************************)
(* The interview session orchestrator of the AI interview assistant        *)
(* (src/app/main.py, interview), with the gateway boundaries it calls      *)
(* (src/app/llm.py, src/app/stt.py) and the final evaluation.              *)
(*                                                                         *)
(* One websocket session is one sequential coroutine.  An action of this   *)
(* module is one pass of that coroutine from one blocking receive to the   *)
(* next (or to its return).  What the outside world does in a pass (the    *)
(* message received, the answers of the gateways, the clock) is drawn      *)
(* from finite sets.  Texts are Python strings; the string operations the  *)
(* code applies to them (strip, lower, split, slicing, len, "in") are      *)
(* tabulated below for a finite catalogue of texts, each row being the     *)
(* value Python computes for that text.                                    *)
(***************************************************************************)
EXTENDS Integers, Sequences, FiniteSets, TLC

\* Python's None where the code holds an Optional[str].
NONE ==
    "<None>"

\* The fixed question texts of the orchestrator and the reasoning gateway.
GREETING ==
    "Hi, I am Saj from SA Technologies. I will ask you some questions based on your profile. Shall we start?"
CONSENT_CLARIFICATION ==
    "I didn't quite catch that. Are you ready to begin the interview? Please say 'yes' to start or 'no' to cancel."
INTRO_QUESTION ==
    "Please introduce yourself in 60 seconds focusing on your most relevant experience for this role."
LLM_ERROR_QUESTION ==
    "Can you tell me more about that?"
EMPTY_FALLBACK_QUESTION ==
    "Can you tell me more about your experience?"
SHORT_FALLBACK_QUESTION ==
    "Can you tell me more about your experience with this technology?"
DEFAULT_NEXT_QUESTION ==
    "Please share more about your recent work."

\* next_question values a reasoning gateway reply may carry.
Q_PYTHON ==
    "What did you build with Python?"
Q_PYTHON_VARIANT ==
    "  what did you build with python?  "
Q_PYTHON_WHY ==
    "What did you build with Python and why?"
Q_CONFLICT ==
    "How do you handle conflict in a team?"
Q_BLANK ==
    "   "
Q_WHY ==
    "Why?"
Q_TEST_CODE ==
    "How do you test code?"
Q_REVIEW_CODE ==
    "How do you review code?"
Q_TEST_YOUR_CODE ==
    "How do you test your code?"

\* Transcripts the transcription gateway may return (already stripped, non-empty).
A_OK ==
    "ok"
A_YES_SURE ==
    "yes sure"
A_PAYMENTS ==
    "I built the payments service in Python at Acme last year"
A_WENT_WELL ==
    "that went quite well overall"

\* Resume topics (skills, projects) of the candidate's profile.
SKILL_PYTHON ==
    "Python"
PROJECT_PAYMENTS ==
    "Payments"

\* the alternative follow-up built from the latest answer: the last 5 of its first 20 words,
\* or its first 50 characters when it has fewer than 5 words
FollowUpFor(a) ==
    CASE a = A_OK -> "Can you tell me more about ok? Specifically, what challenges did you face and how did you overcome them?"
      [] a = A_YES_SURE -> "Can you tell me more about yes sure? Specifically, what challenges did you face and how did you overcome them?"
      [] a = A_PAYMENTS -> "Can you tell me more about Python at Acme last year? Specifically, what challenges did you face and how did you overcome them?"
      [] a = A_WENT_WELL -> "Can you tell me more about that went quite well overall? Specifically, what challenges did you face and how did you overcome them?"
      [] OTHER -> ""

FOLLOWUP_OK ==
    FollowUpFor(A_OK)
FOLLOWUP_YES_SURE ==
    FollowUpFor(A_YES_SURE)
FOLLOWUP_PAYMENTS ==
    FollowUpFor(A_PAYMENTS)
FOLLOWUP_WENT_WELL ==
    FollowUpFor(A_WENT_WELL)

\* len(s.strip())
StripLen(s) ==
    CASE s = GREETING -> 103
      [] s = CONSENT_CLARIFICATION -> 109
      [] s = INTRO_QUESTION -> 96
      [] s = LLM_ERROR_QUESTION -> 32
      [] s = EMPTY_FALLBACK_QUESTION -> 43
      [] s = SHORT_FALLBACK_QUESTION -> 64
      [] s = DEFAULT_NEXT_QUESTION -> 41
      [] s = Q_PYTHON -> 31
      [] s = Q_PYTHON_VARIANT -> 31
      [] s = Q_PYTHON_WHY -> 39
      [] s = Q_CONFLICT -> 37
      [] s = Q_BLANK -> 0
      [] s = Q_WHY -> 4
      [] s = Q_TEST_CODE -> 21
      [] s = Q_REVIEW_CODE -> 23
      [] s = Q_TEST_YOUR_CODE -> 26
      [] s = FOLLOWUP_OK -> 104
      [] s = FOLLOWUP_YES_SURE -> 110
      [] s = FOLLOWUP_PAYMENTS -> 126
      [] s = FOLLOWUP_WENT_WELL -> 130
      [] s = A_OK -> 2
      [] s = A_YES_SURE -> 8
      [] s = A_PAYMENTS -> 56
      [] s = A_WENT_WELL -> 28
      [] OTHER -> 0

\* s[:30]
Prefix30(s) ==
    CASE s = GREETING -> "Hi, I am Saj from SA Technolog"
      [] s = CONSENT_CLARIFICATION -> "I didn't quite catch that. Are"
      [] s = INTRO_QUESTION -> "Please introduce yourself in 6"
      [] s = LLM_ERROR_QUESTION -> "Can you tell me more about tha"
      [] s = EMPTY_FALLBACK_QUESTION -> "Can you tell me more about you"
      [] s = SHORT_FALLBACK_QUESTION -> "Can you tell me more about you"
      [] s = DEFAULT_NEXT_QUESTION -> "Please share more about your r"
      [] s = Q_PYTHON -> "What did you build with Python"
      [] s = Q_PYTHON_VARIANT -> "  what did you build with pyth"
      [] s = Q_PYTHON_WHY -> "What did you build with Python"
      [] s = Q_CONFLICT -> "How do you handle conflict in "
      [] s = Q_BLANK -> "   "
      [] s = Q_WHY -> "Why?"
      [] s = Q_TEST_CODE -> "How do you test code?"
      [] s = Q_REVIEW_CODE -> "How do you review code?"
      [] s = Q_TEST_YOUR_CODE -> "How do you test your code?"
      [] s = FOLLOWUP_OK -> "Can you tell me more about ok?"
      [] s = FOLLOWUP_YES_SURE -> "Can you tell me more about yes"
      [] s = FOLLOWUP_PAYMENTS -> "Can you tell me more about Pyt"
      [] s = FOLLOWUP_WENT_WELL -> "Can you tell me more about tha"
      [] OTHER -> ""

\* s[:50]
Prefix50(s) ==
    CASE s = GREETING -> "Hi, I am Saj from SA Technologies. I will ask you "
      [] s = CONSENT_CLARIFICATION -> "I didn't quite catch that. Are you ready to begin "
      [] s = INTRO_QUESTION -> "Please introduce yourself in 60 seconds focusing o"
      [] s = LLM_ERROR_QUESTION -> "Can you tell me more about that?"
      [] s = EMPTY_FALLBACK_QUESTION -> "Can you tell me more about your experience?"
      [] s = SHORT_FALLBACK_QUESTION -> "Can you tell me more about your experience with th"
      [] s = DEFAULT_NEXT_QUESTION -> "Please share more about your recent work."
      [] s = Q_PYTHON -> "What did you build with Python?"
      [] s = Q_PYTHON_VARIANT -> "  what did you build with python?  "
      [] s = Q_PYTHON_WHY -> "What did you build with Python and why?"
      [] s = Q_CONFLICT -> "How do you handle conflict in a team?"
      [] s = Q_BLANK -> "   "
      [] s = Q_WHY -> "Why?"
      [] s = Q_TEST_CODE -> "How do you test code?"
      [] s = Q_REVIEW_CODE -> "How do you review code?"
      [] s = Q_TEST_YOUR_CODE -> "How do you test your code?"
      [] s = FOLLOWUP_OK -> "Can you tell me more about ok? Specifically, what "
      [] s = FOLLOWUP_YES_SURE -> "Can you tell me more about yes sure? Specifically,"
      [] s = FOLLOWUP_PAYMENTS -> "Can you tell me more about Python at Acme last yea"
      [] s = FOLLOWUP_WENT_WELL -> "Can you tell me more about that went quite well ov"
      [] OTHER -> ""

\* s.lower().strip()
LowerStrip(s) ==
    CASE s = GREETING -> "hi, i am saj from sa technologies. i will ask you some questions based on your profile. shall we start?"
      [] s = CONSENT_CLARIFICATION -> "i didn't quite catch that. are you ready to begin the interview? please say 'yes' to start or 'no' to cancel."
      [] s = INTRO_QUESTION -> "please introduce yourself in 60 seconds focusing on your most relevant experience for this role."
      [] s = LLM_ERROR_QUESTION -> "can you tell me more about that?"
      [] s = EMPTY_FALLBACK_QUESTION -> "can you tell me more about your experience?"
      [] s = SHORT_FALLBACK_QUESTION -> "can you tell me more about your experience with this technology?"
      [] s = DEFAULT_NEXT_QUESTION -> "please share more about your recent work."
      [] s = Q_PYTHON -> "what did you build with python?"
      [] s = Q_PYTHON_VARIANT -> "what did you build with python?"
      [] s = Q_PYTHON_WHY -> "what did you build with python and why?"
      [] s = Q_CONFLICT -> "how do you handle conflict in a team?"
      [] s = Q_BLANK -> ""
      [] s = Q_WHY -> "why?"
      [] s = Q_TEST_CODE -> "how do you test code?"
      [] s = Q_REVIEW_CODE -> "how do you review code?"
      [] s = Q_TEST_YOUR_CODE -> "how do you test your code?"
      [] s = FOLLOWUP_OK -> "can you tell me more about ok? specifically, what challenges did you face and how did you overcome them?"
      [] s = FOLLOWUP_YES_SURE -> "can you tell me more about yes sure? specifically, what challenges did you face and how did you overcome them?"
      [] s = FOLLOWUP_PAYMENTS -> "can you tell me more about python at acme last year? specifically, what challenges did you face and how did you overcome them?"
      [] s = FOLLOWUP_WENT_WELL -> "can you tell me more about that went quite well overall? specifically, what challenges did you face and how did you overcome them?"
      [] OTHER -> ""

\* set(s.split()) of a lower-cased, stripped text
SplitSet(s) ==
    CASE s = "hi, i am saj from sa technologies. i will ask you some questions based on your profile. shall we start?" -> {"am", "ask", "based", "from", "hi,", "i", "on", "profile.", "questions", "sa", "saj", "shall", "some", "start?", "technologies.", "we", "will", "you", "your"}
      [] s = "i didn't quite catch that. are you ready to begin the interview? please say 'yes' to start or 'no' to cancel." -> {"'no'", "'yes'", "are", "begin", "cancel.", "catch", "didn't", "i", "interview?", "or", "please", "quite", "ready", "say", "start", "that.", "the", "to", "you"}
      [] s = "please introduce yourself in 60 seconds focusing on your most relevant experience for this role." -> {"60", "experience", "focusing", "for", "in", "introduce", "most", "on", "please", "relevant", "role.", "seconds", "this", "your", "yourself"}
      [] s = "can you tell me more about that?" -> {"about", "can", "me", "more", "tell", "that?", "you"}
      [] s = "can you tell me more about your experience?" -> {"about", "can", "experience?", "me", "more", "tell", "you", "your"}
      [] s = "can you tell me more about your experience with this technology?" -> {"about", "can", "experience", "me", "more", "technology?", "tell", "this", "with", "you", "your"}
      [] s = "please share more about your recent work." -> {"about", "more", "please", "recent", "share", "work.", "your"}
      [] s = "what did you build with python?" -> {"build", "did", "python?", "what", "with", "you"}
      [] s = "what did you build with python and why?" -> {"and", "build", "did", "python", "what", "why?", "with", "you"}
      [] s = "how do you handle conflict in a team?" -> {"a", "conflict", "do", "handle", "how", "in", "team?", "you"}
      [] s = "" -> {}
      [] s = "why?" -> {"why?"}
      [] s = "how do you test code?" -> {"code?", "do", "how", "test", "you"}
      [] s = "how do you review code?" -> {"code?", "do", "how", "review", "you"}
      [] s = "how do you test your code?" -> {"code?", "do", "how", "test", "you", "your"}
      [] s = "can you tell me more about ok? specifically, what challenges did you face and how did you overcome them?" -> {"about", "and", "can", "challenges", "did", "face", "how", "me", "more", "ok?", "overcome", "specifically,", "tell", "them?", "what", "you"}
      [] s = "can you tell me more about yes sure? specifically, what challenges did you face and how did you overcome them?" -> {"about", "and", "can", "challenges", "did", "face", "how", "me", "more", "overcome", "specifically,", "sure?", "tell", "them?", "what", "yes", "you"}
      [] s = "can you tell me more about python at acme last year? specifically, what challenges did you face and how did you overcome them?" -> {"about", "acme", "and", "at", "can", "challenges", "did", "face", "how", "last", "me", "more", "overcome", "python", "specifically,", "tell", "them?", "what", "year?", "you"}
      [] s = "can you tell me more about that went quite well overall? specifically, what challenges did you face and how did you overcome them?" -> {"about", "and", "can", "challenges", "did", "face", "how", "me", "more", "overall?", "overcome", "quite", "specifically,", "tell", "that", "them?", "well", "went", "what", "you"}
      [] OTHER -> {}

\* the texts t with SKILL_PYTHON.lower() in t.lower()
Mentions_SKILL_PYTHON ==
    {Q_PYTHON, Q_PYTHON_VARIANT, Q_PYTHON_WHY, FOLLOWUP_PAYMENTS, A_PAYMENTS}

\* the texts t with PROJECT_PAYMENTS.lower() in t.lower()
Mentions_PROJECT_PAYMENTS ==
    {A_PAYMENTS}


(***************************************************************************)
(* Data: the session state, the gateway replies, the outbound messages.    *)
(***************************************************************************)

\* Python truthiness of an Optional[str]: neither None nor "".
Truthy(s) ==
    s # NONE /\ s # ""

\* The five interview dimensions of covered_dimensions.
Dimensions ==
    {"skills", "projects", "impact", "problem_solving", "communication"}

\* covered_dimensions == {} (the field's default).
EmptyDict ==
    [d \in {} |-> FALSE]

\* covered_dimensions as initialised by the code: every dimension False.
AllUncovered ==
    [d \in Dimensions |-> FALSE]

\* last_clarification_topic == None.
NoTopicKey ==
    <<>>

\* topic_key = f"{question_type}:{current_question[:30]}"
TopicKey(question_type, question) ==
    <<question_type, Prefix30(question)>>

\* A resume profile with a summary, one skill and one project.
ResumeWithSummary ==
    [summary |-> "Backend engineer with six years of experience",
     skills |-> <<SKILL_PYTHON>>, projects |-> <<PROJECT_PAYMENTS>>,
     roles |-> <<>>, tools |-> <<>>]

\* A resume profile without a summary (summary None), with skills.
ResumeSkillsOnly ==
    [summary |-> NONE,
     skills |-> <<SKILL_PYTHON>>, projects |-> <<>>,
     roles |-> <<>>, tools |-> <<>>]

\* SessionState(role, level, candidate_name, resume_context, history=[], ...):
\* the fields the turn loop reads or writes, at their defaults.
NewSessionState(resume) ==
    [resume_context |-> resume,
     history |-> <<>>,
     question_count |-> 0,
     has_asked_intro |-> FALSE,
     has_asked_behavioral |-> FALSE,
     struggle_streak |-> 0,
     current_topic |-> NONE,
     followup_count |-> 0,
     clarification_depth |-> 0,
     last_clarification_topic |-> NoTopicKey,
     covered_topics |-> <<>>,
     covered_dimensions |-> EmptyDict,
     consent_given |-> FALSE]

\* The value of the variable state while the Python variable state is None.
NoSessionState ==
    NewSessionState(ResumeSkillsOnly)

\* The local variable llm_result before the first reasoning call.
NoLlmResult ==
    [next_question |-> NONE, answer_score |-> 0, rationale |-> NONE,
     red_flags |-> <<>>, end_interview |-> FALSE, final_summary |-> NONE,
     final_json |-> <<>>, question_type |-> NONE]

\* Outbound JSON envelopes.
TextMsg(type, text) ==
    [type |-> type, text |-> text]

ErrorMsg(message) ==
    [type |-> "error", message |-> message]

ReportMsg(data) ==
    [type |-> "json_report", data |-> data]

TurnResultMsg(t, score, rationale, red_flags, end_interview) ==
    [type |-> "turn_result", transcript |-> t, score |-> score,
     rationale |-> rationale, red_flags |-> red_flags,
     end_interview |-> end_interview]

\* The types of the messages of a sequence of outbound messages.
Types(msgs) ==
    {msgs[i].type : i \in DOMAIN msgs}

\* str(exc) of the exceptions that reach the handler's outer except clause.
EXC_GREETING ==
    "greeting request failed"

EXC_START_PAYLOAD ==
    "invalid start payload"

EXC_ANSWER_PAYLOAD ==
    "invalid answer payload"

EXC_NONE_LEN ==
    "object of type 'NoneType' has no len()"

EXC_SUM_STR ==
    "unsupported operand type(s) for +: 'int' and 'str'"

(***************************************************************************)
(* Speech-to-text gateway.                                                 *)
(***************************************************************************)

\* The minimum size of an audio payload, in bytes.
MIN_AUDIO_BYTES ==
    1000

\* transcribe_base64_audio: None for audio under the byte threshold, for a
\* failed request and for an empty text; else the stripped text.  An answer is
\* [bytes: the size of the decoded audio, stt: "error" or the text the service returns].
transcribe_base64_audio(answer) ==
    IF answer.bytes < MIN_AUDIO_BYTES THEN NONE
    ELSE IF answer.stt = "error" THEN NONE
    ELSE IF StripLen(answer.stt) = 0 THEN NONE
    ELSE answer.stt

\* transcribe_with_early_reasoning: the single transcription call; it raises nothing.
transcribe_with_early_reasoning(answer) ==
    transcribe_base64_audio(answer)

(***************************************************************************)
(* Reasoning gateway.                                                      *)
(***************************************************************************)

\* The consent classifier's request failing (an exception inside interpret_consent).
CONSENT_REQUEST_FAILED ==
    "<request failed>"

\* The replies r of the consent classifier with "granted" in r, resp. "denied" in r.
ContainsGranted ==
    {"granted", "not granted"}

ContainsDenied ==
    {"denied"}

\* A variant of interpret_consent in which a failed request counts as a
\* refusal.
interpret_consentFailureDenied(reply) ==
    IF reply = CONSENT_REQUEST_FAILED THEN "denied"
    ELSE IF reply \in ContainsGranted \/ reply = "yes" THEN "granted"
    ELSE IF reply \in ContainsDenied \/ reply = "no" THEN "denied"
    ELSE "unclear"

\* interpret_consent: the model's one-word reply, lower-cased and stripped,
\* mapped to granted / denied / unclear; a failed request is unclear.
interpret_consent(reply) ==
    IF reply = CONSENT_REQUEST_FAILED THEN "unclear"
    ELSE IF reply \in ContainsGranted \/ reply = "yes" THEN "granted"
    ELSE IF reply \in ContainsDenied \/ reply = "no" THEN "denied"
    ELSE "unclear"

\* The JSON values v of a reply's end_interview with
\* (bool(v) if v is not None else False) == False: null or absent, false, 0, "".
JsonFalsy ==
    {NONE, "false", "0", ""}

\* call_llm raises when the request fails or times out, and when the parsed
\* reply does not validate as an LlmResult (a score that is no integer).
call_llm_raises(reply) ==
    reply.outcome # "ok"

\* call_llm's normalisation of the parsed reply into an LlmResult.
\* answer_score is <<>> for a missing key, else <<n>>; final_json likewise.
call_llm(reply) ==
    [next_question |->
        IF Truthy(reply.next_question) THEN reply.next_question
        ELSE DEFAULT_NEXT_QUESTION,
     answer_score |->
        IF reply.answer_score = <<>> \/ reply.answer_score = <<0>> THEN 3
        ELSE reply.answer_score[1],
     rationale |->
        IF Truthy(reply.rationale) THEN reply.rationale ELSE "Not provided",
     red_flags |-> reply.red_flags,
     end_interview |-> reply.end_interview \notin JsonFalsy,
     final_summary |-> reply.final_summary,
     final_json |-> reply.final_json,
     question_type |-> reply.question_type]

\* A variant of FallbackLlmResult that scores the answer as a poor one.
FallbackLlmResultLow ==
    [next_question |-> LLM_ERROR_QUESTION, answer_score |-> 1,
     rationale |-> "Error occurred during processing",
     red_flags |-> <<>>, end_interview |-> FALSE, final_summary |-> NONE,
     final_json |-> <<>>, question_type |-> "technical"]

\* The LlmResult the orchestrator substitutes when call_llm raises.
FallbackLlmResult ==
    [next_question |-> LLM_ERROR_QUESTION, answer_score |-> 3,
     rationale |-> "Error occurred during processing",
     red_flags |-> <<>>, end_interview |-> FALSE, final_summary |-> NONE,
     final_json |-> <<>>, question_type |-> "technical"]

\* prepare_llm_context's follow-up instruction for the hints it is given.
followup_instruction(followup_count, force) ==
    IF force THEN "CRITICAL"
    ELSE IF followup_count >= 3 THEN "NOTE"
    ELSE ""

\* prepare_llm_context initialises covered_dimensions when it is asked to force
\* a new topic and the dimensions are still empty.
prepare_llm_context(s, force) ==
    IF force /\ DOMAIN s.covered_dimensions = {}
    THEN [s EXCEPT !.covered_dimensions = AllUncovered]
    ELSE s

(***************************************************************************)
(* The turn-update rules (interview, after the reasoning call).            *)
(***************************************************************************)

\* The follow-up cap: "if state.followup_count >= 4".
FOLLOWUP_LIMIT ==
    4

\* The clarification cap: "if state.clarification_depth >= 2".
MAX_CLARIFICATION_DEPTH ==
    2

\* The low-score threshold: "answer_score <= 2".
LOW_SCORE ==
    2

\* Transcripts shorter than this count as low-information in a follow-up turn.
SHORT_ANSWER_CHARS ==
    10

\* Transcripts shorter than this are "very short" when they arrive.
VERY_SHORT_CHARS ==
    3

\* "not transcript or not transcript.strip() or len(transcript.strip()) < 3"
IsEmptyOrVeryShort(t) ==
    ~Truthy(t) \/ StripLen(t) = 0 \/ StripLen(t) < VERY_SHORT_CHARS

\* The check on arrival of an empty or very short transcript: at the
\* clarification cap the clarification tracking is reset.
ResetAtClarificationCap(s) ==
    [s EXCEPT !.clarification_depth = 0, !.last_clarification_topic = NoTopicKey]

OnTranscript(s, t) ==
    IF IsEmptyOrVeryShort(t) /\ s.clarification_depth >= MAX_CLARIFICATION_DEPTH
    THEN ResetAtClarificationCap(s)
    ELSE s

\* Reset of the follow-up and clarification tracking.
ResetTracking(s) ==
    [s EXCEPT !.current_topic = NONE, !.followup_count = 0,
              !.clarification_depth = 0, !.last_clarification_topic = NoTopicKey]

\* Variant of IsLowInformation with a threshold two points higher.
IsLowInformationTwoHigher(t, r) ==
    r.answer_score <= LOW_SCORE + 2 \/ (Truthy(t) /\ StripLen(t) < SHORT_ANSWER_CHARS)

\* "llm_result.answer_score <= 2 or (transcript and len(transcript.strip()) < 10)"
IsLowInformation(t, r) ==
    r.answer_score <= LOW_SCORE \/ (Truthy(t) /\ StripLen(t) < SHORT_ANSWER_CHARS)

\* Variant of CountFollowup that restarts the count at every follow-up turn.
CountFollowupRestarting(s, cq) ==
    IF Truthy(s.current_topic)
    THEN [s EXCEPT !.followup_count = 1]
    ELSE [s EXCEPT !.current_topic = Prefix50(cq), !.followup_count = 1]

\* A follow-up turn: count it on the current topic, or seed the topic.
CountFollowup(s, cq) ==
    IF Truthy(s.current_topic)
    THEN [s EXCEPT !.followup_count = @ + 1]
    ELSE [s EXCEPT !.current_topic = Prefix50(cq), !.followup_count = 1]

\* A low-information follow-up turn: count the clarification on its topic key.
CountClarification(s, key) ==
    IF s.last_clarification_topic = key
    THEN [s EXCEPT !.clarification_depth = @ + 1]
    ELSE [s EXCEPT !.clarification_depth = 1, !.last_clarification_topic = key]

\* The clarification cap is reached in this turn.
ClarificationCapReached(s, cq, t, r) ==
    /\ r.question_type = "followup"
    /\ IsLowInformation(t, r)
    /\ CountClarification(CountFollowup(s, cq), TopicKey(r.question_type, cq)).clarification_depth
           >= MAX_CLARIFICATION_DEPTH

\* Variant of TrackQuestionType in which reaching the clarification cap resets
\* nothing: the depth keeps the value it reached.
TrackQuestionTypeWithoutCapReset(s, cq, t, r) ==
    IF r.question_type = "intro"
    THEN ResetTracking([s EXCEPT !.has_asked_intro = TRUE])
    ELSE IF r.question_type = "behavioral"
    THEN ResetTracking([s EXCEPT !.has_asked_behavioral = TRUE])
    ELSE IF r.question_type = "followup"
    THEN LET s1 == CountFollowup(s, cq)
         IN  IF IsLowInformation(t, r)
             THEN CountClarification(s1, TopicKey(r.question_type, cq))
             ELSE [s1 EXCEPT !.clarification_depth = 0,
                             !.last_clarification_topic = NoTopicKey]
    ELSE ResetTracking(s)

\* A variant of TrackQuestionType that also marks the intro as asked when the
\* answer is the one to the fixed self-introduction question.
TrackQuestionTypeByQuestionAsked(s, cq, t, r) ==
    IF r.question_type = "intro" \/ cq = INTRO_QUESTION
    THEN ResetTracking([s EXCEPT !.has_asked_intro = TRUE])
    ELSE IF r.question_type = "behavioral"
    THEN ResetTracking([s EXCEPT !.has_asked_behavioral = TRUE])
    ELSE IF r.question_type = "followup"
    THEN LET s1 == CountFollowup(s, cq)
             s2 == CountClarification(s1, TopicKey(r.question_type, cq))
         IN  IF IsLowInformation(t, r)
             THEN IF s2.clarification_depth >= MAX_CLARIFICATION_DEPTH
                  THEN ResetTracking(s2)
                  ELSE s2
             ELSE [s1 EXCEPT !.clarification_depth = 0,
                             !.last_clarification_topic = NoTopicKey]
    ELSE ResetTracking(s)

\* "Track question types and follow-ups with clarification depth management".
TrackQuestionType(s, cq, t, r) ==
    IF r.question_type = "intro"
    THEN ResetTracking([s EXCEPT !.has_asked_intro = TRUE])
    ELSE IF r.question_type = "behavioral"
    THEN ResetTracking([s EXCEPT !.has_asked_behavioral = TRUE])
    ELSE IF r.question_type = "followup"
    THEN LET s1 == CountFollowup(s, cq)
             s2 == CountClarification(s1, TopicKey(r.question_type, cq))
         IN  IF IsLowInformation(t, r)
             THEN IF s2.clarification_depth >= MAX_CLARIFICATION_DEPTH
                  THEN ResetTracking(s2)
                  ELSE s2
             ELSE [s1 EXCEPT !.clarification_depth = 0,
                             !.last_clarification_topic = NoTopicKey]
    ELSE ResetTracking(s)

\* The follow-up cap is reached in this turn (after the tracking above).
FollowupLimitReached(s) ==
    s.followup_count >= FOLLOWUP_LIMIT

\* A variant of EnforceFollowupLimit that lets one more follow-up pass.
EnforceFollowupLimitAtFive(s) ==
    IF s.followup_count >= FOLLOWUP_LIMIT + 1 THEN ResetTracking(s) ELSE s

\* "Check if we've exceeded follow-up limit (4 consecutive follow-ups)".
EnforceFollowupLimit(s) ==
    IF FollowupLimitReached(s) THEN ResetTracking(s) ELSE s

\* "topic.lower() in question_lower or topic.lower() in transcript_lower"
Mentioned(topic, question, t) ==
    LET hits == IF topic = SKILL_PYTHON THEN Mentions_SKILL_PYTHON
                ELSE IF topic = PROJECT_PAYMENTS THEN Mentions_PROJECT_PAYMENTS
                ELSE {}
    IN  question \in hits \/ (Truthy(t) /\ t \in hits)

\* The elements of a sequence.
Range(seq) ==
    {seq[i] : i \in DOMAIN seq}

\* covered_topics after appending, in order, the topics of the list that are
\* mentioned and not yet covered.
RECURSIVE AppendMentioned(_, _, _, _)
AppendMentioned(covered, topics, question, t) ==
    IF topics = <<>> THEN covered
    ELSE LET topic == Head(topics)
             next == IF Truthy(topic) /\ Mentioned(topic, question, t)
                        /\ topic \notin Range(covered)
                     THEN Append(covered, topic)
                     ELSE covered
         IN  AppendMentioned(next, Tail(topics), question, t)

\* "Extract and track topics from the question/answer for coverage tracking".
TrackCoverage(s, t, r) ==
    LET resume == s.resume_context
        dims0 == IF DOMAIN s.covered_dimensions = {} THEN AllUncovered
                 ELSE s.covered_dimensions
        all_resume_topics == resume.skills \o resume.projects \o resume.roles \o resume.tools
        dims1 == IF r.question_type = "technical" THEN [dims0 EXCEPT !["skills"] = TRUE]
                 ELSE IF r.question_type = "behavioral"
                 THEN [dims0 EXCEPT !["problem_solving"] = TRUE]
                 ELSE dims0
        dims2 == [dims1 EXCEPT !["communication"] = TRUE]
        dims3 == IF \E i \in DOMAIN resume.projects :
                        Truthy(resume.projects[i])
                        /\ Mentioned(resume.projects[i], r.next_question, t)
                 THEN [dims2 EXCEPT !["projects"] = TRUE, !["impact"] = TRUE]
                 ELSE dims2
    IN  [s EXCEPT !.covered_topics =
                      AppendMentioned(@, all_resume_topics, r.next_question, t),
                  !.covered_dimensions = dims3]

\* A variant of TrackStruggle that resets the streak only on a score above 3.
TrackStruggleResetOnHigh(s, r) ==
    IF r.answer_score <= LOW_SCORE
    THEN [s EXCEPT !.struggle_streak = @ + 1]
    ELSE IF r.answer_score > LOW_SCORE + 1 THEN [s EXCEPT !.struggle_streak = 0]
    ELSE s

\* "Very simple struggle heuristic based on low answer scores."
TrackStruggle(s, r) ==
    IF r.answer_score <= LOW_SCORE
    THEN [s EXCEPT !.struggle_streak = @ + 1]
    ELSE [s EXCEPT !.struggle_streak = 0]

\* The record appended to history: the question asked, the transcript, the
\* score as returned, the question type ("technical" when None or "").
TurnRecord(cq, t, r) ==
    [q |-> cq, a |-> t, score |-> r.answer_score,
     type |-> IF Truthy(r.question_type) THEN r.question_type ELSE "technical"]

\* A variant of AppendTurn that appends the record without counting it.
AppendTurnUncounted(s, cq, t, r) ==
    [s EXCEPT !.history = Append(@, TurnRecord(cq, t, r))]

\* "state.question_count += 1; state.history.append({...})"
AppendTurn(s, cq, t, r) ==
    [s EXCEPT !.question_count = @ + 1,
              !.history = Append(@, TurnRecord(cq, t, r))]

\* All the state updates of one turn, in the order of the code.
ApplyTurn(s, cq, t, r) ==
    AppendTurn(
        TrackStruggle(
            TrackCoverage(
                EnforceFollowupLimit(TrackQuestionType(s, cq, t, r)), t, r), r),
        cq, t, r)

(***************************************************************************)
(* The ending decision (interview, "Check if interview should end").       *)
(***************************************************************************)

\* 20 * 60 and 15 * 60 seconds.
MAX_INTERVIEW_DURATION ==
    1200

MIN_INTERVIEW_DURATION ==
    900

\* "len(state.history) >= 4" of has_strong_signals.
STRONG_MIN_HISTORY ==
    4

\* "len(state.history) >= 5" of has_weak_signals.
WEAK_MIN_HISTORY ==
    5

\* "high_score_count >= 2" and "low_score_count >= 3".
STRONG_MIN_HIGH ==
    2

WEAK_MIN_LOW ==
    3

\* A score counts as high from 4 on.
HIGH_SCORE ==
    4

\* sum(turn.get('score', 3) for turn in history)
RECURSIVE SumScores(_)
SumScores(history) ==
    IF history = <<>> THEN 0
    ELSE Head(history).score + SumScores(Tail(history))

high_score_count(history) ==
    Cardinality({i \in DOMAIN history : history[i].score >= HIGH_SCORE})

low_score_count(history) ==
    Cardinality({i \in DOMAIN history : history[i].score <= LOW_SCORE})

\* avg_score >= 3.5, with avg_score = sum / len: 2 * sum >= 7 * len.
has_strong_signals(history) ==
    /\ history # <<>>
    /\ 2 * SumScores(history) >= 7 * Len(history)
    /\ high_score_count(history) >= STRONG_MIN_HIGH
    /\ Len(history) >= STRONG_MIN_HISTORY

\* A variant of has_weak_signals that does not count the low scores.
has_weak_signals_by_average(history) ==
    /\ history # <<>>
    /\ 2 * SumScores(history) <= 5 * Len(history)
    /\ Len(history) >= WEAK_MIN_HISTORY

\* avg_score <= 2.5: 2 * sum <= 5 * len.
has_weak_signals(history) ==
    /\ history # <<>>
    /\ 2 * SumScores(history) <= 5 * Len(history)
    /\ low_score_count(history) >= WEAK_MIN_LOW
    /\ Len(history) >= WEAK_MIN_HISTORY

\* A variant of can_end_based_on_llm that honours the request at any time.
can_end_at_any_time(s, r, elapsed_time) ==
    r.end_interview /\ s.question_count >= 1

\* "llm_result.end_interview and state.question_count >= 1", then
\* "llm_wants_to_end and elapsed_time >= MIN_INTERVIEW_DURATION".
can_end_based_on_llm(s, r, elapsed_time) ==
    /\ r.end_interview /\ s.question_count >= 1
    /\ elapsed_time >= MIN_INTERVIEW_DURATION

\* should_end, over the state after the turn's updates.
ShouldEnd(s, r, elapsed_time) ==
    \/ can_end_based_on_llm(s, r, elapsed_time)
    \/ /\ has_strong_signals(s.history)
       /\ s.has_asked_intro /\ s.has_asked_behavioral
       /\ elapsed_time >= MIN_INTERVIEW_DURATION
    \/ /\ has_weak_signals(s.history)
       /\ elapsed_time >= MIN_INTERVIEW_DURATION
    \/ elapsed_time >= MAX_INTERVIEW_DURATION

(***************************************************************************)
(* The final evaluation (generate_final_evaluation, generate_human_summary)*)
(***************************************************************************)

\* Python's round() of the rational num / den (den > 0): to the nearest
\* integer, a tie going to the even one.
Round(num, den) ==
    LET q == num \div den
        r == num % den
    IN  IF 2 * r < den THEN q
        ELSE IF 2 * r > den THEN q + 1
        ELSE IF q % 2 = 0 THEN q ELSE q + 1

\* The turns of history whose type is one of the given ones.
RECURSIVE TurnsOfType(_, _)
TurnsOfType(history, types) ==
    IF history = <<>> THEN <<>>
    ELSE IF Head(history).type \in types
         THEN <<Head(history)>> \o TurnsOfType(Tail(history), types)
         ELSE TurnsOfType(Tail(history), types)

\* A variant of MeanOfType that takes the neutral score 3 for an empty subset.
MeanOfTypeOrNeutral(history, types) ==
    LET turns == TurnsOfType(history, types)
    IN  IF turns # <<>> THEN <<SumScores(turns), Len(turns)>>
        ELSE <<3, 1>>

\* The mean score of the turns of the given types as a fraction <<num, den>>,
\* or the overall mean when there is no such turn.
MeanOfType(history, types) ==
    LET turns == TurnsOfType(history, types)
    IN  IF turns # <<>> THEN <<SumScores(turns), Len(turns)>>
        ELSE <<SumScores(history), Len(history)>>

\* The recommendation for overall_avg = (c + t + p + f) / 4, the last three
\* being fractions: move_forward from 4, hold from 3, else reject.
Recommendation(c, t, p, f) ==
    LET den == t[2] * p[2] * f[2]
        num == c * den + t[1] * p[2] * f[2] + p[1] * t[2] * f[2] + f[1] * t[2] * p[2]
    IN  IF num >= 4 * 4 * den THEN "move_forward"
        ELSE IF num >= 3 * 4 * den THEN "hold"
        ELSE "reject"

\* generate_final_evaluation(state, last_llm_result)
generate_final_evaluation(s, r) ==
    LET h == s.history
        c == IF h # <<>> THEN r.answer_score ELSE 3
        t == IF h # <<>> THEN MeanOfType(h, {"technical", "followup"}) ELSE <<3, 1>>
        p == IF h # <<>> THEN MeanOfType(h, {"behavioral", "followup"}) ELSE <<3, 1>>
        f == IF h # <<>> THEN MeanOfType(h, {"behavioral"}) ELSE <<3, 1>>
    IN  [status |-> "completed",
         resume_summary |-> s.resume_context.summary,
         questions |-> [i \in DOMAIN h |-> [q |-> h[i].q, a |-> h[i].a]],
         evaluation |->
            [communication |-> Round(c, 1),
             technical |-> Round(t[1], t[2]),
             problem_solving |-> Round(p[1], p[2]),
             culture_fit |-> Round(f[1], f[2]),
             recommendation |-> Recommendation(c, t, p, f)]]

\* A variant of canceled_eval that reports the neutral evaluation.
canceled_eval_neutral(s, cq, t) ==
    [status |-> "canceled",
     resume_summary |-> s.resume_context.summary,
     questions |-> <<[q |-> cq, a |-> t]>>,
     evaluation |->
        [communication |-> 3, technical |-> 3, problem_solving |-> 3,
         culture_fit |-> 3, recommendation |-> "hold"]]

\* The report of a session canceled at the consent gate.
canceled_eval(s, cq, t) ==
    [status |-> "canceled",
     resume_summary |-> s.resume_context.summary,
     questions |-> <<[q |-> cq, a |-> t]>>,
     evaluation |->
        [communication |-> 0, technical |-> 0, problem_solving |-> 0,
         culture_fit |-> 0, recommendation |-> "reject"]]

\* A final_json of the gateway that conforms to FinalEvaluation.
FinalJsonConforming ==
    [status |-> "completed",
     resume_summary |-> NONE,
     questions |-> <<>>,
     evaluation |->
        [communication |-> 4, technical |-> 4, problem_solving |-> 4,
         culture_fit |-> 4, recommendation |-> "move_forward"]]

\* A final_json of the gateway without an "evaluation" key.
FinalJsonBare ==
    [status |-> "completed"]

\* generate_human_summary computes sum(eval_scores.values()) over the report's
\* "evaluation" dict: it raises TypeError when a value of it is a string, as
\* the recommendation is.
generate_human_summary_raises(final_eval) ==
    /\ "evaluation" \in DOMAIN final_eval
    /\ "recommendation" \in DOMAIN final_eval.evaluation

\* The text of the generated summary: the recommendation sentence.
generate_human_summary(final_eval) ==
    IF "evaluation" \in DOMAIN final_eval
       /\ "recommendation" \in DOMAIN final_eval.evaluation
    THEN final_eval.evaluation.recommendation
    ELSE "hold"

(***************************************************************************)
(* The next question and the repetition guard.                             *)
(***************************************************************************)

\* Questions shorter than this are replaced by a fallback.
MIN_QUESTION_CHARS ==
    10

\* "overlap > 0.8" of two word sets, the overlap being the size of the
\* intersection over the size of the larger set: 10 * shared > 8 * larger.
HighOverlap(current_words, prev_words) ==
    LET larger == IF Cardinality(current_words) >= Cardinality(prev_words)
                  THEN Cardinality(current_words) ELSE Cardinality(prev_words)
    IN  /\ Cardinality(current_words) > 0 /\ Cardinality(prev_words) > 0
        /\ 10 * Cardinality(current_words \cap prev_words) > 8 * larger

\* is_repeat: the question equals a previous one, or overlaps it highly.
is_repeat(history, question) ==
    \E i \in DOMAIN history :
        \/ LowerStrip(question) = LowerStrip(history[i].q)
        \/ HighOverlap(SplitSet(LowerStrip(question)), SplitSet(LowerStrip(history[i].q)))

\* A variant of ValidatedQuestion that takes the gateway's question as it is.
ValidatedQuestionUnchecked(r) ==
    r.next_question

\* The question before the repetition guard: the gateway's, or a fallback
\* when it is empty, blank or too short.
ValidatedQuestion(r) ==
    LET first == IF ~Truthy(r.next_question) \/ StripLen(r.next_question) = 0
                 THEN EMPTY_FALLBACK_QUESTION
                 ELSE r.next_question
    IN  IF StripLen(first) < MIN_QUESTION_CHARS THEN SHORT_FALLBACK_QUESTION
        ELSE first

\* The question the turn emits: a repeat is replaced by the alternative
\* follow-up built from the latest answer in history.
NextQuestion(s, r) ==
    LET question == ValidatedQuestion(r)
    IN  IF s.history # <<>> /\ is_repeat(s.history, question)
        THEN FollowUpFor(s.history[Len(s.history)].a)
        ELSE question

(***************************************************************************)
(* The session: one coroutine per websocket connection.                    *)
(***************************************************************************)

VARIABLES
    pc,                \* where the coroutine is: AwaitStart, AwaitAnswer, or how it returned
    has_state,         \* state is not None
    state,             \* the SessionState
    current_question,  \* the question the next answer answers
    elapsed_time,      \* time.time() - interview_start_time at the latest pass over an answer
    transcript,        \* the transcript of the last answer
    llm_result,        \* the LlmResult of the last turn
    prepared_context,  \* the hints prepare_llm_context was last called with
    call_args,         \* the hints call_llm was last called with
    force_new_topic,   \* the local variable force_new_topic
    log,               \* the notable log lines of the last pass
    calls,             \* the gateway calls of the last pass over an answer, as they start and end
    sent,              \* the messages sent in the last step, in order
    tts                \* the speech of the questions: tasks and timers still alive, oldest first

vars ==
    <<pc, has_state, state, current_question, elapsed_time, transcript,
      llm_result, prepared_context, call_args, force_new_topic, log, calls, sent, tts>>

\* The coroutine has returned: after ws.close(), on a disconnect, or through
\* the outer "except Exception" that reports str(exc).
Returned ==
    {"Closed", "Disconnected", "Failed"}

Init ==
    /\ pc = "AwaitStart"
    /\ has_state = FALSE
    /\ state = NoSessionState
    /\ current_question = NONE
    /\ elapsed_time = 0
    /\ transcript = NONE
    /\ llm_result = NoLlmResult
    /\ prepared_context = [force_new_topic |-> FALSE, followup_instruction |-> ""]
    /\ call_args = [force_new_topic |-> FALSE, followup_count |-> 0]
    /\ force_new_topic = FALSE
    /\ log = {}
    /\ calls = <<>>
    /\ sent = <<>>
    /\ tts = <<>>

(***************************************************************************)
(* The speech of a question: the background task that streams the audio    *)
(* and its 30-second safety timer, created after each question_text.       *)
(***************************************************************************)

\* The audio chunks of the longest stream explored.
MaxChunks ==
    1

\* The task and the timer as created: nothing streamed, the timer sleeping.
NewSpeech(text) ==
    [text |-> text, chunks |-> 0, status |-> "streaming", ready |-> FALSE,
     timer |-> "armed"]

\* The speech created by a pass: every question_text is sent, then its task
\* and its timer are created.
RECURSIVE SpeechOf(_)
SpeechOf(msgs) ==
    IF msgs = <<>> THEN <<>>
    ELSE (IF Head(msgs).type = "question_text" THEN <<NewSpeech(Head(msgs).text)>> ELSE <<>>)
         \o SpeechOf(Tail(msgs))

\* "await ws.send_bytes(chunk)"
AudioMsg(text, n) ==
    [type |-> "audio", text |-> text, chunk |-> n]

ReadyMsg ==
    [type |-> "ready_to_listen"]

\* The tts_error message, with str(e) of a TTSException of stream_eleven or
\* of any other exception.
TtsErrorMsg(kind) ==
    [type |-> "tts_error",
     message |-> IF kind = "TTSException"
                 THEN "Audio generation failed: Network error calling ElevenLabs: timed out"
                 ELSE "Audio generation failed: <str(e)>"]

\* A task that is done and whose timer has woken up leaves nothing behind.
Collect(tasks) ==
    SelectSeq(tasks, LAMBDA t : ~(t.status = "done" /\ t.timer = "expired"))

\* A greeting the gateway may generate, with surrounding white space.
GREETING_VARIED ==
    " Hello, I am Saj from SA Technologies. Are you ready to start? "

\* The greeting request failing (generate_greeting raises).
GREETING_REQUEST_FAILED ==
    "<request failed>"

\* generate_greeting: the stripped content of the reply, or the default greeting.
generate_greeting(reply) ==
    IF ~Truthy(reply) THEN GREETING
    ELSE IF reply = GREETING_VARIED
    THEN "Hello, I am Saj from SA Technologies. Are you ready to start?"
    ELSE reply

\* "Display resume summary": from the summary, else from the first skills.
ResumeSummaryMsgs(resume) ==
    IF Truthy(resume.summary)
    THEN <<TextMsg("resume_summary", "Based on your resume")>>
    ELSE IF resume.skills # <<>>
    THEN <<TextMsg("resume_summary", "I see you have experience with")>>
    ELSE <<>>

\* A variant of StartOutcome that leaves every bad first message to the
\* outer except clause, which reports it and does not close the channel.
StartOutcomeUnclosed(m, greeting) ==
    IF m.type = "start" /\ m.data = "valid" /\ m.resume # <<>>
       /\ greeting # GREETING_REQUEST_FAILED
    THEN [pc |-> "AwaitAnswer", has_state |-> TRUE, state |-> NewSessionState(m.resume[1]),
          current_question |-> generate_greeting(greeting),
          sent |-> ResumeSummaryMsgs(m.resume[1])
                     \o <<TextMsg("question_text", generate_greeting(greeting))>>]
    ELSE [pc |-> "Failed", has_state |-> FALSE, state |-> NoSessionState,
          current_question |-> NONE,
          sent |-> <<ErrorMsg(EXC_START_PAYLOAD)>>]

\* The pass over the first message: m = [type, data, resume], resume being
\* <<>> for a payload without resume_context and <<profile>> otherwise.  What
\* the pass leaves in the variables, and the messages it sends.
StartOutcome(m, greeting) ==
    IF m.type # "start"
    THEN [pc |-> "Closed", has_state |-> FALSE, state |-> NoSessionState,
          current_question |-> NONE,
          sent |-> <<ErrorMsg("expected start message")>>]
    ELSE IF m.data # "valid"
    THEN [pc |-> "Failed", has_state |-> FALSE, state |-> NoSessionState,
          current_question |-> NONE,
          sent |-> <<ErrorMsg(EXC_START_PAYLOAD)>>]
    ELSE IF m.resume = <<>>
    THEN [pc |-> "Closed", has_state |-> FALSE, state |-> NoSessionState,
          current_question |-> NONE,
          sent |-> <<ErrorMsg("Resume is required to start interview")>>]
    ELSE IF greeting = GREETING_REQUEST_FAILED
    THEN [pc |-> "Failed", has_state |-> TRUE, state |-> NewSessionState(m.resume[1]),
          current_question |-> NONE,
          sent |-> ResumeSummaryMsgs(m.resume[1]) \o <<ErrorMsg(EXC_GREETING)>>]
    ELSE [pc |-> "AwaitAnswer", has_state |-> TRUE, state |-> NewSessionState(m.resume[1]),
          current_question |-> generate_greeting(greeting),
          sent |-> ResumeSummaryMsgs(m.resume[1])
                     \o <<TextMsg("question_text", generate_greeting(greeting))>>]

\* The first message arrives and every send of the pass succeeds.
StartSession(m, greeting) ==
    /\ pc = "AwaitStart"
    /\ \E o \in {StartOutcome(m, greeting)} :
        /\ pc' = o.pc
        /\ has_state' = o.has_state
        /\ state' = o.state
        /\ current_question' = o.current_question
        /\ sent' = o.sent
    /\ log' = {}
    /\ calls' = <<>>
    /\ tts' = tts \o SpeechOf(sent')
    /\ UNCHANGED <<elapsed_time, transcript, llm_result, prepared_context,
                   call_args, force_new_topic>>

\* The client disconnects while the coroutine waits for a message.
Disconnect ==
    /\ pc \in {"AwaitStart", "AwaitAnswer"}
    /\ pc' = "Disconnected"
    /\ sent' = <<>>
    /\ log' = {}
    /\ calls' = <<>>
    /\ UNCHANGED <<has_state, state, current_question, elapsed_time, transcript,
                   llm_result, prepared_context, call_args, force_new_topic, tts>>

\* In the turn loop: a frame that cannot be received as JSON ("receive"), or a
\* message that is no answer ("other").  An error is reported and the loop waits again.
NoAnswer(kind) ==
    /\ pc = "AwaitAnswer"
    /\ sent' = <<ErrorMsg(IF kind = "receive" THEN "Error receiving answer"
                          ELSE "expected answer message")>>
    /\ log' = {}
    /\ calls' = <<>>
    /\ UNCHANGED <<pc, has_state, state, current_question, elapsed_time, transcript,
                   llm_result, prepared_context, call_args, force_new_topic, tts>>

\* An answer whose payload does not validate or whose audio is no base64.
MalformedAnswer ==
    /\ pc = "AwaitAnswer"
    /\ pc' = "Failed"
    /\ sent' = <<ErrorMsg(EXC_ANSWER_PAYLOAD)>>
    /\ log' = {}
    /\ calls' = <<>>
    /\ UNCHANGED <<has_state, state, current_question, elapsed_time, transcript,
                   llm_result, prepared_context, call_args, force_new_topic, tts>>

\* The calls every pass over an answer makes before it looks at the
\* transcript, in the order of their events: the preparation of the
\* reasoning context is created as a task and awaited at once, then the
\* transcription is called and awaited.
AnswerCalls ==
    <<"prepare_llm_context.start", "prepare_llm_context.done",
      "transcribe.start", "transcribe.done">>

\* The calls of a pass of the consent exchange: the classification follows.
ConsentCalls ==
    AnswerCalls \o <<"interpret_consent.start", "interpret_consent.done">>

\* The calls of a turn: the reasoning call follows.
TurnCalls ==
    AnswerCalls \o <<"call_llm.start", "call_llm.done">>

\* The hints of the turn's context preparation, from the state as the answer arrives.
PreparedHints(s) ==
    [force_new_topic |-> s.followup_count >= FOLLOWUP_LIMIT,
     followup_instruction |->
        followup_instruction(s.followup_count, s.followup_count >= FOLLOWUP_LIMIT)]

\* The state after the context preparation and the check of the transcript.
AfterTranscript(s, t) ==
    OnTranscript(prepare_llm_context(s, s.followup_count >= FOLLOWUP_LIMIT), t)

\* The local force_new_topic after the check of the transcript (it keeps its
\* value unless the check sets it).
ForceAfterTranscript(s, t, force) ==
    IF IsEmptyOrVeryShort(t) /\ s.clarification_depth >= MAX_CLARIFICATION_DEPTH
    THEN TRUE
    ELSE force

\* The answer is in the consent exchange: "len(state.history) == 0 and not state.consent_given".
InConsentExchange(s) ==
    Len(s.history) = 0 /\ ~s.consent_given

\* The POST of the report to the company endpoint: nothing when no endpoint is
\* configured; else one request, whose failure is swallowed.
send_report_to_company(sink, evaluation) ==
    IF sink = "unset" THEN <<>>
    ELSE <<[type |-> "company_report", data |-> evaluation, result |-> sink]>>

\* An answer for which the transcription gateway returns None: the log line
\* "Transcript length: {len(transcript)}" raises TypeError.
AnswerWithoutTranscript(answer) ==
    /\ pc = "AwaitAnswer"
    /\ transcribe_with_early_reasoning(answer) = NONE
    /\ transcript' = NONE
    /\ prepared_context' = PreparedHints(state)
    /\ state' = AfterTranscript(state, NONE)
    /\ force_new_topic' = ForceAfterTranscript(state, NONE, force_new_topic)
    /\ sent' = <<ErrorMsg(EXC_NONE_LEN)>>
    /\ pc' = "Failed"
    /\ log' = {"empty_or_short_transcript"}
    /\ calls' = AnswerCalls
    /\ UNCHANGED <<has_state, current_question, elapsed_time, llm_result, call_args, tts>>

\* "Consent interpretation completed ...: {consent_result}"
ConsentLog(consent_result) ==
    IF consent_result = "denied" THEN "consent_denied"
    ELSE IF consent_result = "unclear" THEN "consent_unclear"
    ELSE "consent_granted"

\* A variant of GrantConsent that counts the consent question as a question.
GrantConsentCountingQuestion(s) ==
    [s EXCEPT !.consent_given = TRUE, !.question_count = @ + 1]

\* "state.consent_given = True"
GrantConsent(s) ==
    [s EXCEPT !.consent_given = TRUE]

\* What the consent exchange makes of the answer t, s being the state after
\* the check of the transcript: the canceled report, the clarification, or
\* the introduction question.
ConsentOutcome(s, cq, t, consent_result, sink) ==
    IF consent_result = "denied"
    THEN [pc |-> "Closed", state |-> s, current_question |-> cq,
          sent |-> <<ReportMsg(canceled_eval(s, cq, t))>>
                     \o send_report_to_company(sink, canceled_eval(s, cq, t))
                     \o <<TextMsg("done", "Interview canceled. Thank you.")>>]
    ELSE IF consent_result = "unclear"
    THEN [pc |-> "AwaitAnswer", state |-> s, current_question |-> CONSENT_CLARIFICATION,
          sent |-> <<TextMsg("question_text", CONSENT_CLARIFICATION)>>]
    ELSE [pc |-> "AwaitAnswer", state |-> GrantConsent(s), current_question |-> INTRO_QUESTION,
          sent |-> <<TurnResultMsg(t, 0, "Consent given", <<>>, FALSE),
                     TextMsg("question_text", INTRO_QUESTION)>>]

\* The consent exchange takes the answer: the coroutine awaits a message, the
\* answer has a transcript and consent is not yet given.
ConsentReceived(answer, elapsed) ==
    /\ pc = "AwaitAnswer"
    /\ transcribe_with_early_reasoning(answer) # NONE
    /\ InConsentExchange(AfterTranscript(state, transcribe_with_early_reasoning(answer)))
    /\ elapsed >= elapsed_time

\* What every pass of the consent exchange leaves in the variables of the
\* answer, whether or not its sends succeed.
ConsentBookkeeping(answer, reply, elapsed) ==
    LET t == transcribe_with_early_reasoning(answer)
    IN  /\ elapsed_time' = elapsed
        /\ transcript' = t
        /\ prepared_context' = PreparedHints(state)
        /\ force_new_topic' = ForceAfterTranscript(state, t, force_new_topic)
        /\ log' = (IF IsEmptyOrVeryShort(t) THEN {"empty_or_short_transcript"} ELSE {})
                   \cup {ConsentLog(interpret_consent(reply))}
        /\ calls' = ConsentCalls
        /\ UNCHANGED <<has_state, llm_result, call_args>>

\* The answer to the consent question, classified by the reasoning gateway,
\* elapsed seconds after the start: the consent exchange does not read the
\* clock.
ConsentAnswer(answer, reply, sink, elapsed) ==
    /\ ConsentReceived(answer, elapsed)
    /\ ConsentBookkeeping(answer, reply, elapsed)
    /\ \E t \in {transcribe_with_early_reasoning(answer)} :
        \E o \in {ConsentOutcome(AfterTranscript(state, t), current_question, t,
                                 interpret_consent(reply), sink)} :
            /\ pc' = o.pc
            /\ state' = o.state
            /\ current_question' = o.current_question
            /\ sent' = o.sent
    /\ tts' = tts \o SpeechOf(sent')

\* The messages of the terminal sequence after turn_result, for a session
\* the ending decision ends; the summary generation may raise.
FinalEval(s, r) ==
    IF r.final_json # <<>> THEN r.final_json[1] ELSE generate_final_evaluation(s, r)

SummaryRaises(s, r) ==
    ~Truthy(r.final_summary) /\ generate_human_summary_raises(FinalEval(s, r))

\* A variant of TerminalMsgs in which a failure of the company endpoint
\* reaches the handler's outer except clause.
TerminalMsgsSinkRaises(s, r, sink) ==
    IF SummaryRaises(s, r) THEN <<ErrorMsg(EXC_SUM_STR)>>
    ELSE <<TextMsg("summary", IF Truthy(r.final_summary) THEN r.final_summary
                              ELSE generate_human_summary(FinalEval(s, r))),
           ReportMsg(FinalEval(s, r))>>
         \o send_report_to_company(sink, FinalEval(s, r))
         \o (IF sink = "failed" THEN <<ErrorMsg("company endpoint request failed")>>
             ELSE <<TextMsg("done", "Interview complete. Thank you!")>>)

TerminalMsgs(s, r, sink) ==
    IF SummaryRaises(s, r) THEN <<ErrorMsg(EXC_SUM_STR)>>
    ELSE <<TextMsg("summary", IF Truthy(r.final_summary) THEN r.final_summary
                              ELSE generate_human_summary(FinalEval(s, r))),
           ReportMsg(FinalEval(s, r))>>
         \o send_report_to_company(sink, FinalEval(s, r))
         \o <<TextMsg("done", "Interview complete. Thank you!")>>

\* The notable log lines of a turn.
TurnLog(s, cq, t, r, raised) ==
    (IF IsEmptyOrVeryShort(t) THEN {"empty_or_short_transcript"} ELSE {})
    \cup (IF raised THEN {"llm_failed"} ELSE {})
    \cup (IF ClarificationCapReached(s, cq, t, r) THEN {"max_clarification_depth"} ELSE {})
    \cup (IF FollowupLimitReached(TrackQuestionType(s, cq, t, r))
          THEN {"followup_limit"} ELSE {})

\* The value of an expression, bound once: the element of a singleton.
The(S) ==
    CHOOSE x \in S : TRUE

\* The end of the pass, from the state s2 after the turn's updates: the
\* terminal sequence when the ending decision ends the session, else the
\* next question.
TurnEnd(s2, cq, t, r, should_end, next_question, sink) ==
    [pc |-> IF ~should_end THEN "AwaitAnswer"
            ELSE IF SummaryRaises(s2, r) THEN "Failed" ELSE "Closed",
     state |-> s2,
     current_question |-> IF should_end THEN cq ELSE next_question,
     sent |-> <<TurnResultMsg(t, r.answer_score, r.rationale, r.red_flags,
                              r.end_interview)>>
              \o (IF should_end THEN TerminalMsgs(s2, r, sink)
                  ELSE <<TextMsg("question_text", next_question)>>)]

\* The pass from the reasoning call on, s1 being the state it is made in.
TurnFromCall(s1, cq, t, r, raised, elapsed, sink) ==
    [call_args |-> [force_new_topic |-> s1.followup_count >= FOLLOWUP_LIMIT,
                    followup_count |-> s1.followup_count],
     force_new_topic |-> IF ClarificationCapReached(s1, cq, t, r) THEN TRUE
                         ELSE s1.followup_count >= FOLLOWUP_LIMIT,
     log |-> TurnLog(s1, cq, t, r, raised),
     llm_result |-> r,
     transcript |-> t,
     elapsed_time |-> elapsed,
     end |-> The({TurnEnd(s2, cq, t, r, ShouldEnd(s2, r, elapsed), NextQuestion(s2, r), sink) :
                    s2 \in {ApplyTurn(s1, cq, t, r)}})]

\* One interview turn on the session state s and the question cq being
\* answered: what the pass leaves in the variables.  The reply is the
\* reasoning gateway's, elapsed the reading of the clock, sink the company
\* endpoint.
TurnOutcome(s, cq, answer, reply, elapsed, sink) ==
    The({[prepared_context |-> PreparedHints(s),
          rest |-> TurnFromCall(s1, cq, t, r, call_llm_raises(reply), elapsed, sink)] :
            s1 \in {AfterTranscript(s, transcribe_with_early_reasoning(answer))},
            t \in {transcribe_with_early_reasoning(answer)},
            r \in {IF call_llm_raises(reply) THEN FallbackLlmResult ELSE call_llm(reply)}})

\* The receive loop takes the answer as a turn: the coroutine awaits a
\* message, the answer has a transcript and the consent is given.
TurnReceived(answer, elapsed) ==
    /\ pc = "AwaitAnswer"
    /\ transcribe_with_early_reasoning(answer) # NONE
    /\ ~InConsentExchange(state)
    /\ elapsed >= elapsed_time

\* A variant of AnswerTurn whose next answer is taken as an answer to the
\* question that was current before the turn.
AnswerTurnKeepingQuestion(answer, reply, elapsed, sink) ==
    /\ TurnReceived(answer, elapsed)
    /\ \E o \in {TurnOutcome(state, current_question, answer, reply, elapsed, sink)} :
        /\ pc' = o.rest.end.pc
        /\ state' = o.rest.end.state
        /\ sent' = o.rest.end.sent
        /\ elapsed_time' = o.rest.elapsed_time
        /\ transcript' = o.rest.transcript
        /\ llm_result' = o.rest.llm_result
        /\ call_args' = o.rest.call_args
        /\ force_new_topic' = o.rest.force_new_topic
        /\ log' = o.rest.log
        /\ calls' = TurnCalls
        /\ prepared_context' = o.prepared_context
        /\ tts' = tts \o SpeechOf(o.rest.end.sent)
    /\ UNCHANGED <<has_state, current_question>>

\* An answer after consent.
AnswerTurn(answer, reply, elapsed, sink) ==
    /\ TurnReceived(answer, elapsed)
    /\ \E o \in {TurnOutcome(state, current_question, answer, reply, elapsed, sink)} :
        /\ pc' = o.rest.end.pc
        /\ state' = o.rest.end.state
        /\ current_question' = o.rest.end.current_question
        /\ sent' = o.rest.end.sent
        /\ elapsed_time' = o.rest.elapsed_time
        /\ transcript' = o.rest.transcript
        /\ llm_result' = o.rest.llm_result
        /\ call_args' = o.rest.call_args
        /\ force_new_topic' = o.rest.force_new_topic
        /\ log' = o.rest.log
        /\ calls' = TurnCalls
        /\ prepared_context' = o.prepared_context
        /\ tts' = tts \o SpeechOf(o.rest.end.sent)
    /\ UNCHANGED has_state

(***************************************************************************)
(* The steps of the speech tasks and of their timers.                      *)
(***************************************************************************)

\* What a step of a task or of a timer leaves alone.
SessionUnchanged ==
    UNCHANGED <<pc, has_state, state, current_question, elapsed_time, transcript,
                llm_result, prepared_context, call_args, force_new_topic, log, calls>>

\* A variant of TransportUp in which a channel the coroutine has closed still
\* accepts messages.
TransportUpUntilClientLeaves ==
    pc # "Disconnected"

\* The websocket accepts messages: the coroutine has not returned.
TransportUp ==
    pc \notin Returned

\* "async for chunk in stream_eleven(current_question): await ws.send_bytes(chunk)"
TtsChunk(i) ==
    /\ TransportUp
    /\ tts[i].status = "streaming"
    /\ tts[i].chunks < MaxChunks
    /\ sent' = <<AudioMsg(tts[i].text, tts[i].chunks + 1)>>
    /\ tts' = [tts EXCEPT ![i].chunks = @ + 1]
    /\ SessionUnchanged

\* The stream is exhausted: "await ws.send_json({"type": "ready_to_listen"})".
TtsCompletes(i) ==
    /\ TransportUp
    /\ tts[i].status = "streaming"
    /\ sent' = <<ReadyMsg>>
    /\ tts' = Collect([tts EXCEPT ![i].status = "done", ![i].ready = TRUE])
    /\ SessionUnchanged

\* stream_eleven raises TTSException, or the loop raises another exception:
\* the tts_error message is sent.
TtsFails(i, kind) ==
    /\ TransportUp
    /\ tts[i].status = "streaming"
    /\ sent' = <<TtsErrorMsg(kind)>>
    /\ tts' = [tts EXCEPT ![i].status = "error_sent"]
    /\ SessionUnchanged

\* Variant of TtsReadyAfterError in which the except clauses end after the
\* tts_error message.
TtsEndsAfterError(i) ==
    /\ TransportUp
    /\ tts[i].status = "error_sent"
    /\ sent' = <<>>
    /\ tts' = Collect([tts EXCEPT ![i].status = "done"])
    /\ SessionUnchanged

\* The second send of the except clauses: ready_to_listen.
TtsReadyAfterError(i) ==
    /\ TransportUp
    /\ tts[i].status = "error_sent"
    /\ sent' = <<ReadyMsg>>
    /\ tts' = Collect([tts EXCEPT ![i].status = "done", ![i].ready = TRUE])
    /\ SessionUnchanged

\* The coroutine has returned: the sends of the task raise, in the loop, in
\* the except clause and in the done callback, and the task is over.
TtsAborts(i) ==
    /\ ~TransportUp
    /\ tts[i].status # "done"
    /\ sent' = <<>>
    /\ tts' = Collect([tts EXCEPT ![i].status = "done"])
    /\ SessionUnchanged

\* Variant of SafetyTimeout whose timer sends nothing.
SafetyTimeoutSilent(i) ==
    /\ tts[i].timer = "armed"
    /\ \A j \in 1..(i - 1) : tts[j].timer = "expired"
    /\ sent' = <<>>
    /\ tts' = Collect([tts EXCEPT ![i].timer = "expired"])
    /\ SessionUnchanged

\* The timer of the i-th speech wakes up after 30 seconds, the timers
\* created before it having woken up: ready_to_listen unless the task is done.
SafetyTimeout(i) ==
    /\ tts[i].timer = "armed"
    /\ \A j \in 1..(i - 1) : tts[j].timer = "expired"
    /\ IF tts[i].status # "done" /\ TransportUp
       THEN /\ sent' = <<ReadyMsg>>
            /\ tts' = [tts EXCEPT ![i].timer = "expired", ![i].ready = TRUE]
       ELSE /\ sent' = <<>>
            /\ tts' = Collect([tts EXCEPT ![i].timer = "expired"])
    /\ SessionUnchanged

\* The speech of the question just asked plays to its end, a stream of
\* MaxChunks chunks, and its timer wakes up, before anything else happens.
SpeechPlaysOut ==
    /\ TransportUp
    /\ Len(tts) = 1
    /\ tts[1].status = "streaming"
    /\ sent' = [n \in 1..(MaxChunks - tts[1].chunks) |->
                    AudioMsg(tts[1].text, tts[1].chunks + n)] \o <<ReadyMsg>>
    /\ tts' = <<>>
    /\ SessionUnchanged

(***************************************************************************)
(* The transport goes down during a pass: a send raises.                   *)
(***************************************************************************)

\* Variant of SentBeforeDisconnect in which the send that raises is skipped
\* and the pass goes on.
SentAroundFailedSend(msgs, i) ==
    SubSeq(msgs, 1, i - 1) \o SubSeq(msgs, i + 1, Len(msgs))

\* The messages of a pass that are out when its i-th message is the send
\* that raises: the exception leaves the coroutine through the outer except
\* clauses, and nothing after it is sent.
SentBeforeDisconnect(msgs, i) ==
    SubSeq(msgs, 1, i - 1)

\* The i-th message of the pass is a websocket send and it raises, the
\* client being gone (WebSocketDisconnect, caught by "except
\* WebSocketDisconnect: return", or another exception, whose report by the
\* last except clause raises in turn): the coroutine returns.  cq is the
\* question the pass assigns before it sends its question_text.
DisconnectAtSend(msgs, cq, i) ==
    /\ msgs[i].type # "company_report"
    /\ pc' = "Disconnected"
    /\ sent' = SentBeforeDisconnect(msgs, i)
    /\ current_question' = IF msgs[i].type = "question_text" THEN cq ELSE current_question
    /\ tts' = tts \o SpeechOf(sent')

\* The pass over the first message, one of its sends raising.
StartDropped(m, greeting) ==
    /\ pc = "AwaitStart"
    /\ \E o \in {StartOutcome(m, greeting)} :
        /\ \E i \in DOMAIN o.sent : DisconnectAtSend(o.sent, o.current_question, i)
        /\ has_state' = o.has_state
        /\ state' = o.state
    /\ log' = {}
    /\ calls' = <<>>
    /\ UNCHANGED <<elapsed_time, transcript, llm_result, prepared_context,
                   call_args, force_new_topic>>

\* A pass of the consent exchange, one of its sends raising.
ConsentDropped(answer, reply, sink, elapsed) ==
    /\ ConsentReceived(answer, elapsed)
    /\ ConsentBookkeeping(answer, reply, elapsed)
    /\ \E t \in {transcribe_with_early_reasoning(answer)} :
        \E o \in {ConsentOutcome(AfterTranscript(state, t), current_question, t,
                                 interpret_consent(reply), sink)} :
            /\ \E i \in DOMAIN o.sent : DisconnectAtSend(o.sent, o.current_question, i)
            /\ state' = o.state

\* A turn, one of its sends raising: the sends of question_text are retried
\* and replaced by a fallback, which raise as well, and the coroutine returns.
TurnDropped(answer, reply, elapsed, sink) ==
    /\ TurnReceived(answer, elapsed)
    /\ \E o \in {TurnOutcome(state, current_question, answer, reply, elapsed, sink)} :
        /\ \E i \in DOMAIN o.rest.end.sent :
               DisconnectAtSend(o.rest.end.sent, o.rest.end.current_question, i)
        /\ state' = o.rest.end.state
        /\ elapsed_time' = o.rest.elapsed_time
        /\ transcript' = o.rest.transcript
        /\ llm_result' = o.rest.llm_result
        /\ call_args' = o.rest.call_args
        /\ force_new_topic' = o.rest.force_new_topic
        /\ log' = o.rest.log
        /\ calls' = TurnCalls
        /\ prepared_context' = o.prepared_context
    /\ UNCHANGED has_state

(***************************************************************************)
(* The session under the full range of inputs, for a few turns.            *)
(***************************************************************************)

\* The turns explored after consent.
MaxTurns ==
    1

\* Start messages: a valid one per resume profile, one without resume, one
\* whose payload does not validate, and a message of another type.
StartMsgs ==
    {[type |-> "start", data |-> "valid", resume |-> <<ResumeWithSummary>>],
     [type |-> "start", data |-> "valid", resume |-> <<ResumeSkillsOnly>>],
     [type |-> "start", data |-> "valid", resume |-> <<>>],
     [type |-> "start", data |-> "malformed", resume |-> <<>>],
     [type |-> "ping", data |-> "valid", resume |-> <<>>]}

Greetings ==
    {NONE, GREETING_VARIED, GREETING_REQUEST_FAILED}

\* Audio payloads just under and at the byte threshold.
SmallAudio ==
    MIN_AUDIO_BYTES - 1

\* Answers: by audio size and by what the transcription service returns.
Answers ==
    {[bytes |-> SmallAudio, stt |-> A_PAYMENTS],
     [bytes |-> MIN_AUDIO_BYTES, stt |-> "error"],
     [bytes |-> MIN_AUDIO_BYTES, stt |-> ""],
     [bytes |-> MIN_AUDIO_BYTES, stt |-> A_OK],
     [bytes |-> MIN_AUDIO_BYTES, stt |-> A_PAYMENTS]}

ConsentReplies ==
    {"granted", "yes", "denied", "no", "unclear", "not granted", CONSENT_REQUEST_FAILED}

\* A well-formed reply of the reasoning gateway.
BaseReply ==
    [outcome |-> "ok", next_question |-> Q_PYTHON, answer_score |-> <<4>>,
     rationale |-> "Clear answer", red_flags |-> <<>>, end_interview |-> "false",
     final_summary |-> NONE, final_json |-> <<>>, question_type |-> "technical"]

\* The replies explored: the base reply varied along one axis at a time, and
\* the replies that ask to end (with and without summary and report).
LlmReplies ==
    {[BaseReply EXCEPT !.outcome = o] : o \in {"ok", "timeout", "invalid"}}
    \cup {[BaseReply EXCEPT !.next_question = q] :
            q \in {NONE, "", Q_BLANK, Q_WHY, Q_PYTHON_VARIANT, Q_CONFLICT}}
    \cup {[BaseReply EXCEPT !.answer_score = n] :
            n \in {<<>>, <<0>>, <<-1>>, <<1>>, <<2>>, <<5>>, <<7>>}}
    \cup {[BaseReply EXCEPT !.question_type = k] :
            k \in {NONE, "intro", "behavioral", "followup", "coding"}}
    \cup {[BaseReply EXCEPT !.end_interview = e, !.final_summary = fs, !.final_json = fj] :
            e \in {NONE, "true"}, fs \in {NONE, "Strong candidate."},
            fj \in {<<>>, <<FinalJsonConforming>>, <<FinalJsonBare>>}}

\* Readings of the clock around the two durations.
TimePoints ==
    {0, MIN_INTERVIEW_DURATION, MAX_INTERVIEW_DURATION}

Sinks ==
    {"unset", "ok", "failed"}

\* The candidate answers once the speech of the question is over.
SpeechOver ==
    tts = <<>>

Start ==
    \E m \in StartMsgs, greeting \in Greetings : StartSession(m, greeting)

Unexpected ==
    \E kind \in {"receive", "other"} : NoAnswer(kind)

Untranscribed ==
    /\ SpeechOver
    /\ \E answer \in Answers : AnswerWithoutTranscript(answer)

Consent ==
    /\ SpeechOver
    /\ \E answer \in Answers, reply \in ConsentReplies, sink \in Sinks, elapsed \in TimePoints :
           ConsentAnswer(answer, reply, sink, elapsed)

Turn ==
    /\ Len(state.history) < MaxTurns
    /\ SpeechOver
    /\ \E answer \in Answers, reply \in LlmReplies, elapsed \in TimePoints, sink \in Sinks :
           AnswerTurn(answer, reply, elapsed, sink)

Next ==
    \/ Start
    \/ Disconnect
    \/ Unexpected
    \/ MalformedAnswer
    \/ Untranscribed
    \/ Consent
    \/ Turn
    \/ SpeechPlaysOut

Spec ==
    Init /\ [][Next]_vars

(***************************************************************************)
(* The session over many turns, under a narrow range of inputs.            *)
(***************************************************************************)

\* The turns explored after consent.
MaxFlowTurns ==
    5

FlowAnswers ==
    {[bytes |-> MIN_AUDIO_BYTES, stt |-> a] : a \in {A_OK, A_PAYMENTS}}

\* Replies that score the answer low or high and tag the question as a
\* follow-up or as a technical question; the gateway keeps asking Q_PYTHON.
FlowReplies ==
    {[BaseReply EXCEPT !.answer_score = <<n>>, !.question_type = k] :
        n \in {LOW_SCORE, HIGH_SCORE}, k \in {"followup", "technical"}}

FlowStart ==
    StartSession([type |-> "start", data |-> "valid", resume |-> <<ResumeWithSummary>>], NONE)

FlowConsent ==
    /\ SpeechOver
    /\ ConsentAnswer([bytes |-> MIN_AUDIO_BYTES, stt |-> A_YES_SURE], "granted", "unset", 0)

FlowTurn ==
    /\ Len(state.history) < MaxFlowTurns
    /\ SpeechOver
    /\ \E answer \in FlowAnswers, reply \in FlowReplies :
           AnswerTurn(answer, reply, 0, "unset")

NextFlow ==
    \/ FlowStart
    \/ FlowConsent
    \/ FlowTurn
    \/ SpeechPlaysOut

SpecFlow ==
    Init /\ [][NextFlow]_vars

(***************************************************************************)
(* The ending decision, over sessions with a history.                      *)
(***************************************************************************)

\* The turns replayed before the turn whose ending decision is explored.
MaxHistory ==
    5

\* The scores of the replayed turns.
ReplayScores ==
    {1, 3, 5}

\* The clock reading of the replayed turns.
ReplayClock ==
    0

\* The question type of the i-th replayed turn: the first may be the intro,
\* the second a behavioral question, the others are technical.
ReplayType(i, profile) ==
    IF i = 1 /\ "intro" \in profile THEN "intro"
    ELSE IF i = 2 /\ "behavioral" \in profile THEN "behavioral"
    ELSE "technical"

\* The session after consent and the turns of the given scores: the turn
\* loop run on these inputs.
RECURSIVE Replay(_, _)
Replay(scores, profile) ==
    LET n == Len(scores)
        reply == [BaseReply EXCEPT !.answer_score = <<scores[n]>>,
                                   !.question_type = ReplayType(n, profile)]
        answer == [bytes |-> MIN_AUDIO_BYTES, stt |-> A_PAYMENTS]
    IN  IF n = 1
        THEN TurnOutcome(GrantConsent(NewSessionState(ResumeWithSummary)), INTRO_QUESTION,
                         answer, reply, ReplayClock, "unset")
        ELSE The({TurnOutcome(o.rest.end.state, o.rest.end.current_question,
                              answer, reply, ReplayClock, "unset") :
                     o \in {Replay(SubSeq(scores, 1, n - 1), profile)}})

InitEnding ==
    \E n \in 1..MaxHistory :
        \E scores \in [1..n -> ReplayScores], profile \in SUBSET {"intro", "behavioral"} :
            \E o \in {Replay(scores, profile)} :
                /\ has_state = TRUE
                /\ pc = o.rest.end.pc
                /\ state = o.rest.end.state
                /\ current_question = o.rest.end.current_question
                /\ sent = o.rest.end.sent
                /\ elapsed_time = o.rest.elapsed_time
                /\ transcript = o.rest.transcript
                /\ llm_result = o.rest.llm_result
                /\ call_args = o.rest.call_args
                /\ force_new_topic = o.rest.force_new_topic
                /\ log = o.rest.log
                /\ calls = TurnCalls
                /\ prepared_context = o.prepared_context
                /\ tts = <<>>

\* Readings of the clock just under and at the two durations.
EndingTimePoints ==
    {MIN_INTERVIEW_DURATION - 1, MIN_INTERVIEW_DURATION,
     MAX_INTERVIEW_DURATION - 1, MAX_INTERVIEW_DURATION}

\* Replies of every score in and around the range, with and without the
\* request to end.
EndingReplies ==
    {[BaseReply EXCEPT !.answer_score = <<n>>, !.end_interview = e] :
        n \in 1..5, e \in {"false", "true"}}

\* The turn after the replayed ones, at a later reading of the clock.
EndingTurn ==
    /\ elapsed_time = ReplayClock
    /\ \E reply \in EndingReplies, elapsed \in EndingTimePoints :
           AnswerTurn([bytes |-> MIN_AUDIO_BYTES, stt |-> A_PAYMENTS], reply, elapsed, "unset")

SpecEnding ==
    InitEnding /\ [][EndingTurn]_vars


(***************************************************************************)
(* The repetition guard, over sessions whose gateway picks its questions   *)
(* from a set of similar ones.                                             *)
(***************************************************************************)

\* The turns of a session of this specification.
MaxGuardTurns ==
    3

\* Questions that equal one another up to case and blanks, or share 5 of 6,
\* 4 of 5 or 5 of 8 of their words.
GuardQuestions ==
    {Q_PYTHON, Q_PYTHON_VARIANT, Q_PYTHON_WHY, Q_TEST_CODE, Q_REVIEW_CODE, Q_TEST_YOUR_CODE}

GuardTurn ==
    /\ Len(state.history) < MaxGuardTurns
    /\ SpeechOver
    /\ \E a \in {A_YES_SURE, A_PAYMENTS}, q \in GuardQuestions :
           AnswerTurn([bytes |-> MIN_AUDIO_BYTES, stt |-> a],
                      [BaseReply EXCEPT !.next_question = q], 0, "unset")

NextGuard ==
    \/ FlowStart
    \/ FlowConsent
    \/ GuardTurn
    \/ SpeechPlaysOut

SpecGuard ==
    Init /\ [][NextGuard]_vars

(***************************************************************************)
(* The strong candidate: an introduction, a behavioral question and        *)
(* technical questions answered well, then a turn in the ending window.    *)
(***************************************************************************)

\* The turns replayed before the turn in the ending window.
ScenarioTurns ==
    7

\* The scores of a candidate who answers adequately or well.
ScenarioScores ==
    {3, 4, 5}

InitScenario ==
    \E scores \in [1..ScenarioTurns -> ScenarioScores] :
        \E o \in {Replay(scores, {"intro", "behavioral"})} :
            /\ has_state = TRUE
            /\ pc = o.rest.end.pc
            /\ state = o.rest.end.state
            /\ current_question = o.rest.end.current_question
            /\ sent = o.rest.end.sent
            /\ elapsed_time = o.rest.elapsed_time
            /\ transcript = o.rest.transcript
            /\ llm_result = o.rest.llm_result
            /\ call_args = o.rest.call_args
            /\ force_new_topic = o.rest.force_new_topic
            /\ log = o.rest.log
            /\ calls = TurnCalls
            /\ prepared_context = o.prepared_context
            /\ tts = <<>>

\* The turn taken 16 minutes into the interview: the reply scores the answer
\* and does not ask to end, with or without the summary the gateway may attach.
ScenarioTurn ==
    /\ elapsed_time = ReplayClock
    /\ \E n \in ScenarioScores, fs \in {NONE, "Strong candidate."} :
           AnswerTurn([bytes |-> MIN_AUDIO_BYTES, stt |-> A_PAYMENTS],
                      [BaseReply EXCEPT !.answer_score = <<n>>, !.final_summary = fs],
                      16 * 60, "ok")

SpecScenario ==
    InitScenario /\ [][ScenarioTurn]_vars

(***************************************************************************)
(* The speech: sessions whose candidate may answer, and whose client may   *)
(* disconnect, while the speech of earlier questions is still going on.    *)
(***************************************************************************)

\* The turns of a session of this specification.
MaxSpeechTurns ==
    1

\* The tasks and timers alive at a time.
MaxLiveSpeech ==
    2

SpeechConsent ==
    /\ Len(tts) < MaxLiveSpeech
    /\ \E reply \in {"granted", "denied", "unclear"} :
           ConsentAnswer([bytes |-> MIN_AUDIO_BYTES, stt |-> A_YES_SURE], reply, "unset", 0)

SpeechTurn ==
    /\ Len(state.history) < MaxSpeechTurns
    /\ Len(tts) < MaxLiveSpeech
    /\ \E elapsed \in {0, MAX_INTERVIEW_DURATION} :
           AnswerTurn([bytes |-> MIN_AUDIO_BYTES, stt |-> A_PAYMENTS],
                      [BaseReply EXCEPT !.final_summary = "Strong candidate."], elapsed, "unset")

ReadyAfterError ==
    \E i \in DOMAIN tts : TtsReadyAfterError(i)

NextSpeech ==
    \/ FlowStart
    \/ SpeechConsent
    \/ SpeechTurn
    \/ Disconnect
    \/ \E i \in DOMAIN tts : TtsChunk(i)
    \/ \E i \in DOMAIN tts : TtsCompletes(i)
    \/ \E i \in DOMAIN tts, kind \in {"TTSException", "Exception"} : TtsFails(i, kind)
    \/ ReadyAfterError
    \/ \E i \in DOMAIN tts : TtsAborts(i)
    \/ \E i \in DOMAIN tts : SafetyTimeout(i)

SpecSpeech ==
    Init /\ [][NextSpeech]_vars

\* The event loop runs every task that can run: a task that has sent
\* tts_error goes on to its next send.
SpecSpeechFair ==
    SpecSpeech /\ WF_vars(ReadyAfterError)

(***************************************************************************)
(* The transport: sessions whose client may go away at the receive and at  *)
(* every send, with the company endpoint unset, answering or failing.      *)
(***************************************************************************)

\* The turns of a session of this specification.
MaxTransportTurns ==
    2

\* Replies that carry the summary of the interview, asking to end or not; a
\* reply that scores the answer low; a request that times out.
TransportReplies ==
    {[BaseReply EXCEPT !.end_interview = e, !.final_summary = "Strong candidate."] :
        e \in {"false", "true"}}
    \cup {[BaseReply EXCEPT !.answer_score = <<1>>], [BaseReply EXCEPT !.outcome = "timeout"]}

\* Readings of the clock: at the start and at the maximum duration.
TransportTimePoints ==
    {0, MAX_INTERVIEW_DURATION}

TransportStart ==
    \E m \in StartMsgs : StartSession(m, NONE) \/ StartDropped(m, NONE)

TransportConsent ==
    /\ SpeechOver
    /\ \E answer \in {[bytes |-> MIN_AUDIO_BYTES, stt |-> A_YES_SURE],
                       [bytes |-> MIN_AUDIO_BYTES, stt |-> A_OK]},
          reply \in {"granted", "denied", "unclear", CONSENT_REQUEST_FAILED},
          sink \in Sinks :
           \/ ConsentAnswer(answer, reply, sink, 0)
           \/ ConsentDropped(answer, reply, sink, 0)

TransportTurn ==
    /\ Len(state.history) < MaxTransportTurns
    /\ SpeechOver
    /\ \E reply \in TransportReplies, elapsed \in TransportTimePoints, sink \in Sinks :
           \/ AnswerTurn([bytes |-> MIN_AUDIO_BYTES, stt |-> A_PAYMENTS], reply, elapsed, sink)
           \/ TurnDropped([bytes |-> MIN_AUDIO_BYTES, stt |-> A_PAYMENTS], reply, elapsed, sink)

NextTransport ==
    \/ TransportStart
    \/ TransportConsent
    \/ TransportTurn
    \/ Disconnect
    \/ SpeechPlaysOut
    \/ \E i \in DOMAIN tts : TtsAborts(i)
    \/ \E i \in DOMAIN tts : SafetyTimeout(i)

SpecTransport ==
    Init /\ [][NextTransport]_vars

(***************************************************************************)
(* The generated report: sessions of a few turns of every score and kind,  *)
(* ended at the maximum duration by a reply that carries a summary and no  *)
(* report of its own.                                                      *)
(***************************************************************************)

\* The turns of a session of this specification.
MaxReportTurns ==
    3

\* The scores and the kinds of question of the replies.
ReportScores ==
    {1, 3, 4, 5}

ReportTypes ==
    {"intro", "technical", "behavioral", "followup"}

ReportTurn ==
    /\ Len(state.history) < MaxReportTurns
    /\ SpeechOver
    /\ \E n \in ReportScores, k \in ReportTypes, elapsed \in TransportTimePoints :
           AnswerTurn([bytes |-> MIN_AUDIO_BYTES, stt |-> A_PAYMENTS],
                      [BaseReply EXCEPT !.answer_score = <<n>>, !.question_type = k,
                                        !.final_summary = "Strong candidate."],
                      elapsed, "ok")

NextReport ==
    \/ FlowStart
    \/ FlowConsent
    \/ ReportTurn
    \/ SpeechPlaysOut

SpecReport ==
    Init /\ [][NextReport]_vars
(***************************************************************************)
(* Properties.                                                             *)
(***************************************************************************)

\* A step that completes an interview turn: a TurnRecord is appended.
TurnTaken ==
    Len(state'.history) = Len(state.history) + 1

\* The last record of the history.
LastTurn ==
    state.history[Len(state.history)]

\* C1: in every reachable state question_count equals len(history), and both
\* are 0 until consent is granted; a pass of the consent exchange (the answer
\* arrives while consent is not given) leaves history and question_count as
\* they are, however the answer is classified.
C1_CountIsHistoryLength ==
    /\ [](/\ state.question_count = Len(state.history)
          /\ ~state.consent_given => Len(state.history) = 0 /\ state.question_count = 0)
    /\ [][(pc = "AwaitAnswer" /\ ~state.consent_given)
            => (/\ state'.history = state.history
                /\ state'.question_count = state.question_count)]_vars

\* C1 witness: after consent a turn has been appended and counted.
C1_Witness ==
    /\ state.consent_given
    /\ Len(state.history) = MaxTurns
    /\ state.question_count = MaxTurns

\* C2: the ending decision of a turn is never to end while the elapsed time is
\* under the minimum duration, whatever the end flag and the scores are, and
\* is always to end from the maximum duration on.
C2_EndingRespectsDurations ==
    [][TurnTaken =>
        /\ elapsed_time' < MIN_INTERVIEW_DURATION => pc' = "AwaitAnswer"
        /\ elapsed_time' >= MAX_INTERVIEW_DURATION => pc' \in {"Closed", "Failed"}]_vars

\* C2 witness: a turn taken just under the minimum duration, with the end flag
\* set and strong signals collected, after which the session awaits an answer.
C2_Witness ==
    /\ elapsed_time = MIN_INTERVIEW_DURATION - 1
    /\ llm_result.end_interview
    /\ has_strong_signals(state.history)
    /\ state.has_asked_intro /\ state.has_asked_behavioral
    /\ pc = "AwaitAnswer"

\* The four ending rules on the state a turn leaves, stated on the scores.
C3_SomeRuleHolds ==
    LET h == state'.history
        high == Cardinality({i \in DOMAIN h : h[i].score >= 4})
        low == Cardinality({i \in DOMAIN h : h[i].score <= 2})
        late == elapsed_time' >= 15 * 60
    IN  \/ elapsed_time' >= 20 * 60
        \/ llm_result'.end_interview /\ late /\ state'.question_count >= 1
        \/ /\ 10 * SumScores(h) >= 35 * Len(h) /\ high >= 2
           /\ state'.has_asked_intro /\ state'.has_asked_behavioral
           /\ Len(h) >= 4 /\ late
        \/ /\ 10 * SumScores(h) <= 25 * Len(h) /\ low >= 3
           /\ Len(h) >= 5 /\ late

\* C3: a turn ends the session if and only if one of the four rules holds on
\* the state it leaves: the hard ceiling; an end request with the minimum
\* duration elapsed and a question counted; the strong signals (average at
\* least 3.5, two scores of 4 or more, intro and behavioral asked, four
\* records, minimum duration); the weak signals (average at most 2.5, three
\* scores of 2 or less, five records, minimum duration).
C3_EndsIffSomeRule ==
    [][TurnTaken => (pc' \in {"Closed", "Failed"} <=> C3_SomeRuleHolds)]_vars

\* C3 witness: a session ended by the weak signals alone.
C3_Witness ==
    /\ pc \in {"Closed", "Failed"}
    /\ elapsed_time = MIN_INTERVIEW_DURATION
    /\ ~llm_result.end_interview
    /\ Len(state.history) >= WEAK_MIN_HISTORY
    /\ low_score_count(state.history) >= WEAK_MIN_LOW
    /\ 2 * SumScores(state.history) <= 5 * Len(state.history)

\* C4: every record of the history has a score from 1 to 5, whatever
\* answer_score the reasoning gateway returned.
C4_ScoresInRange ==
    \A i \in DOMAIN state.history : state.history[i].score \in 1..5

\* C5: an answer whose transcription yields no transcript (a failed request,
\* an empty text, audio under the byte threshold) does not abort the turn: the
\* session keeps awaiting answers and the pass emits a question.
C5_UntranscribedAnswerContinues ==
    [][(pc = "AwaitAnswer" /\ transcript' = NONE /\ "empty_or_short_transcript" \in log')
         => (pc' = "AwaitAnswer" /\ "question_text" \in Types(sent'))]_vars

\* C6: a session that has returned without a json_report in its last pass
\* was disconnected or was refused at its start message.
C6_NoReportOnlyOnDisconnectOrBadStart ==
    (pc \in Returned /\ "json_report" \notin Types(sent))
        => (pc = "Disconnected" \/ ~has_state)

\* The fallback questions of a turn whose reasoning call failed: the fixed
\* one, or the alternative follow-up on the turn's answer when the fixed one
\* repeats an earlier question.
C7_FallbackQuestions ==
    {LLM_ERROR_QUESTION, FollowUpFor(transcript')}

\* C7 as stated: a turn whose reasoning call raises appends a record of
\* neutral score, emits a question_text with a fallback question and leaves
\* the channel open.
C7_FailedCallAlwaysContinues ==
    [][(TurnTaken /\ "llm_failed" \in log')
         => (/\ state'.history[Len(state'.history)].score = 3
             /\ pc' = "AwaitAnswer"
             /\ \E i \in DOMAIN sent' :
                    sent'[i] \in {TextMsg("question_text", q) : q \in C7_FallbackQuestions})]_vars

\* C7 amended: a turn whose reasoning call raises appends a record of neutral
\* score 3; it ends the session only when the minimum duration has elapsed,
\* and when it does not end it, it emits a question_text with a non-empty
\* fallback question and awaits the next answer.
C7_FailedCallContinuesUnlessEnding ==
    [][(TurnTaken /\ "llm_failed" \in log')
         => (/\ state'.history[Len(state'.history)].score = 3
             /\ elapsed_time' < MIN_INTERVIEW_DURATION => pc' = "AwaitAnswer"
             /\ pc' = "AwaitAnswer" =>
                  /\ current_question' \in C7_FallbackQuestions
                  /\ StripLen(current_question') > 0
                  /\ \E i \in DOMAIN sent' :
                         sent'[i] = TextMsg("question_text", current_question'))]_vars

\* C7 witness: after a failed reasoning call the record of score 3 is in the
\* history and the fixed fallback question is the current one.
C7_Witness ==
    /\ "llm_failed" \in log
    /\ pc = "AwaitAnswer"
    /\ LastTurn.score = 3
    /\ current_question = LLM_ERROR_QUESTION
    /\ \E i \in DOMAIN sent : sent[i] = TextMsg("question_text", LLM_ERROR_QUESTION)

\* C8: a consent answer classified as denied makes the pass emit a json_report
\* of status canceled with the four dimensions 0 and the recommendation
\* reject, followed by done, and close the channel, with no record appended;
\* nothing happens in the session afterwards.
C8_DeniedConsentCancels ==
    [][/\ "consent_denied" \in log' =>
            /\ sent'[1].type = "json_report"
            /\ sent'[1].data.status = "canceled"
            /\ sent'[1].data.evaluation =
                  [communication |-> 0, technical |-> 0, problem_solving |-> 0,
                   culture_fit |-> 0, recommendation |-> "reject"]
            /\ sent'[Len(sent')].type = "done"
            /\ "question_text" \notin Types(sent')
            /\ pc' = "Closed"
            /\ state'.history = <<>> /\ state'.question_count = 0
       /\ "consent_denied" \notin log]_vars

\* C8 witness: a session closed by a denied consent.
C8_Witness ==
    /\ "consent_denied" \in log
    /\ pc = "Closed"
    /\ sent[1].type = "json_report"

\* C9: the turn after one in which followup_count reached the cap finds the
\* counter reset and makes its reasoning call with force_new_topic set, in
\* the prepared context and in the call.
C9_FollowupCapForcesNewTopic ==
    [][("followup_limit" \in log /\ TurnTaken)
         => (/\ state.followup_count = 0
             /\ prepared_context'.force_new_topic
             /\ call_args'.force_new_topic)]_vars

\* C10: the turn after one in which clarification_depth reached the cap finds
\* the clarification tracking reset and makes its reasoning call with
\* force_new_topic set.
C10_ClarificationCapForcesNewTopic ==
    [][("max_clarification_depth" \in log /\ TurnTaken)
         => (/\ state.clarification_depth = 0
             /\ state.last_clarification_topic = NoTopicKey
             /\ call_args'.force_new_topic)]_vars

\* The last turn of the history was a low-information one: a score of 2 or
\* less, or an answer of fewer than 10 characters.
C11_LastTurnLow ==
    /\ Len(state.history) >= 1
    /\ (LastTurn.score <= 2 \/ StripLen(LastTurn.a) < 10)

\* C11: clarification_depth counts the runs of consecutive low-information
\* turns on the same topic, whatever the kind the gateway returns: a
\* low-information turn leaves clarification_depth at 1 or more unless it
\* triggers the forced topic change, and the second consecutive
\* low-information turn on the same question prefix triggers it.
C11_DepthCountsLowInformationRuns ==
    [][(TurnTaken /\ C11_LastTurnLow')
         => (/\ state'.clarification_depth >= 1 \/ "max_clarification_depth" \in log'
             /\ (C11_LastTurnLow /\ Prefix30(LastTurn.q) = Prefix30(current_question))
                   => "max_clarification_depth" \in log')]_vars

\* C12: clarification_depth never exceeds the cap of 2 in any reachable
\* state; a turn in which it reaches the cap resets it to 0 and triggers the
\* forced topic change (the tracking is cleared and the handler's
\* force_new_topic is set) in that same turn.
C12_DepthNeverExceedsCap ==
    /\ [](state.clarification_depth <= MAX_CLARIFICATION_DEPTH)
    /\ [][(TurnTaken /\ "max_clarification_depth" \in log')
            => (/\ state'.clarification_depth = 0
                /\ state'.last_clarification_topic = NoTopicKey
                /\ state'.current_topic = NONE
                /\ force_new_topic')]_vars

\* A turn has just reached the cap: the turn before it was a low-information
\* follow-up turn on the same question, and the depth is back at 0.
C12_Witness ==
    /\ "max_clarification_depth" \in log
    /\ Len(state.history) >= 2
    /\ state.history[Len(state.history) - 1].q = LastTurn.q
    /\ state.clarification_depth = 0
    /\ force_new_topic

C14_FollowupCountTracksSequence ==
    [][TurnTaken =>
        IF /\ llm_result'.question_type = "followup"
           /\ "max_clarification_depth" \notin log'
           /\ "followup_limit" \notin log'
        THEN /\ state'.followup_count = state.followup_count + 1
             /\ state'.current_topic = IF state.current_topic = NONE
                                       THEN Prefix50(current_question)
                                       ELSE state.current_topic
             /\ (state.current_topic = NONE) = (state.followup_count = 0)
        ELSE /\ state'.followup_count = 0
             /\ state'.current_topic = NONE]_vars

\* Three follow-up turns in a row have been counted on a topic.
C14_Witness ==
    /\ state.followup_count = 3
    /\ state.current_topic # NONE
    /\ LastTurn.type = "followup"

\* The question is, lower-cased and trimmed, equal to a question of the
\* history, or at least 80% of the words of the larger of the two word sets
\* are shared.
C15_Duplicate(history, question) ==
    \E i \in DOMAIN history :
        LET current_words == SplitSet(LowerStrip(question))
            prev_words == SplitSet(LowerStrip(history[i].q))
            larger == IF Cardinality(current_words) >= Cardinality(prev_words)
                      THEN Cardinality(current_words) ELSE Cardinality(prev_words)
        IN  \/ LowerStrip(question) = LowerStrip(history[i].q)
            \/ /\ larger > 0
               /\ 5 * Cardinality(current_words \cap prev_words) >= 4 * larger

\* C15: the repetition guard replaces the gateway's question by the
\* alternative follow-up exactly when the question is, case-insensitively and
\* trimmed, an exact match of a prior question or shares at least 80% of its
\* words with one; below 80% against every prior question it is emitted
\* unchanged.
C15_GuardRejectsFromEightyPercent ==
    [][(TurnTaken /\ pc' = "AwaitAnswer")
         => IF C15_Duplicate(state'.history, ValidatedQuestion(llm_result'))
            THEN current_question' = FollowUpFor(LastTurn'.a)
            ELSE current_question' = ValidatedQuestion(llm_result')]_vars

\* The technical records of the history the turn leaves: six or more, with a
\* mean score between 4.1 and 4.3.
C16_SixTechnicalAnswersAboutFourPointTwo ==
    LET technical == TurnsOfType(state'.history, {"technical"})
    IN  /\ Len(technical) >= 6
        /\ 10 * SumScores(technical) >= 41 * Len(technical)
        /\ 10 * SumScores(technical) <= 43 * Len(technical)

\* C16: a turn taken 16 minutes into the interview that leaves six technical
\* answers averaging about 4.2, with has_asked_intro and has_asked_behavioral
\* both true, ends the session through the strong-signal rule and emits a
\* report whose recommendation is move_forward.
C16_StrongCandidateMovesForward ==
    [][(/\ TurnTaken
        /\ C16_SixTechnicalAnswersAboutFourPointTwo
        /\ state'.has_asked_intro /\ state'.has_asked_behavioral
        /\ elapsed_time' = 16 * 60)
         => (/\ has_strong_signals(state'.history)
             /\ pc' = "Closed"
             /\ \E i \in DOMAIN sent' :
                    /\ sent'[i].type = "json_report"
                    /\ sent'[i].data.evaluation.recommendation = "move_forward")]_vars

\* An answer has been transcribed and processed in this step, by the consent
\* exchange or by the turn.
C17_AnswerProcessed ==
    /\ pc = "AwaitAnswer"
    /\ transcript' # NONE
    /\ \/ TurnTaken
       \/ log' \cap {"consent_denied", "consent_unclear", "consent_granted"} # {}

\* C17: an answer processed once the elapsed time has reached the maximum
\* duration ends the session with a report, in whatever state the session
\* was, the consent exchange included.
C17_CeilingEndsSession ==
    [][(C17_AnswerProcessed /\ elapsed_time' >= MAX_INTERVIEW_DURATION)
         => (pc' = "Closed" /\ "json_report" \in Types(sent'))]_vars

\* The timers that have not woken up yet.
C18_Sleeping(tasks) ==
    {i \in DOMAIN tasks : tasks[i].timer = "armed"}

\* The oldest speech whose timer has not woken up yet.
C18_Oldest ==
    tts[CHOOSE i \in C18_Sleeping(tts) : \A j \in C18_Sleeping(tts) : i <= j]

C19_AnswerProcessed ==
    \/ ENABLED ConsentAnswer([bytes |-> MIN_AUDIO_BYTES, stt |-> A_YES_SURE], "granted",
                             "unset", elapsed_time)
    \/ TurnReceived([bytes |-> MIN_AUDIO_BYTES, stt |-> A_PAYMENTS], elapsed_time)

\* C19: a failure of the synthesis is not fatal: the step that sends
\* tts_error leaves the SessionState, the current question and the position
\* of the session as they were; once tts_error is sent, ready_to_listen
\* follows unless the transport goes down; and a session that awaits an
\* answer processes the answer that arrives, whatever became of the speech.
C19_SynthesisFailureIsNotFatal ==
    /\ [][("tts_error" \in Types(sent'))
            => (/\ state' = state /\ pc' = pc /\ current_question' = current_question
                /\ has_state' = has_state
                /\ \E i \in DOMAIN tts' : tts'[i].status = "error_sent")]_vars
    /\ ((\E i \in DOMAIN tts : tts[i].status = "error_sent")
           ~> (ReadyMsg \in Range(sent) \/ ~TransportUp))
    /\ []((pc = "AwaitAnswer" /\ \E i \in DOMAIN tts : tts[i].status = "error_sent")
             => C19_AnswerProcessed)

\* The speech of the introduction question has failed, tts_error is sent, and
\* the answer to the question has then been processed by a turn.
C19_Witness ==
    /\ \E i \in DOMAIN tts :
           tts[i].text = INTRO_QUESTION /\ tts[i].status = "error_sent"
    /\ "turn_result" \in Types(sent)
    /\ Len(state.history) = 1
    /\ pc = "AwaitAnswer"

\* C20: the audio of two questions never overlaps: every audio chunk sent is
\* a chunk of the question asked last, the current question, the chunks of
\* the questions asked before it having all been sent before its
\* question_text.
C20_AudioOfOneQuestionAtATime ==
    [][\A i \in DOMAIN sent' :
           sent'[i].type = "audio" => sent'[i].text = current_question]_vars

(***************************************************************************)
(* The calls of a pass, the transport, the report.                         *)
(***************************************************************************)

\* C21: in every answer turn the transcription and the preparation of the
\* reasoning context are both started before either of them has ended, and
\* the reasoning call starts only after both have ended.
C21_PreparationOverlapsTranscription ==
    "call_llm.start" \in Range(calls) =>
        \E ps, pd, ts, td, cs \in DOMAIN calls :
            /\ calls[ps] = "prepare_llm_context.start"
            /\ calls[pd] = "prepare_llm_context.done"
            /\ calls[ts] = "transcribe.start"
            /\ calls[td] = "transcribe.done"
            /\ calls[cs] = "call_llm.start"
            /\ ps < pd /\ ps < td /\ ts < pd /\ ts < td
            /\ pd < cs /\ td < cs

\* The messages that report the outcome of a session, to the client and to
\* the company endpoint.
C22_ReportMessages ==
    {"summary", "json_report", "company_report", "done"}

\* C22: a disconnect observed at the receive or at a send ends the session
\* without a report: the pass that observes it sends no done, and forwards a
\* report to the company endpoint only if the json_report was out before the
\* send that raised; the coroutine has returned, and no step after it emits
\* a summary, a json_report, a done or a forward to the endpoint.
C22_DisconnectEmitsNoReport ==
    /\ [][(pc' = "Disconnected" /\ pc # "Disconnected")
            => /\ "done" \notin Types(sent')
               /\ \A i \in DOMAIN sent' :
                      sent'[i].type = "company_report"
                          => i > 1 /\ sent'[i - 1].type = "json_report"]_vars
    /\ [][pc = "Disconnected"
            => /\ pc' = "Disconnected"
               /\ Types(sent') \cap C22_ReportMessages = {}]_vars

\* The transport went down in the terminal sequence of a turn taken at the
\* maximum duration: the summary is out and the send of the json_report
\* raised.
C22_Witness ==
    /\ pc = "Disconnected"
    /\ Types(sent) = {"turn_result", "summary"}
    /\ elapsed_time = MAX_INTERVIEW_DURATION

\* The completed reports among the messages of the last step.
C23_CompletedReports ==
    {sent[i].data : i \in {j \in DOMAIN sent :
                              sent[j].type = "json_report" /\ sent[j].data.status = "completed"}}

\* C23: in every completed report the recommendation is the one of the mean
\* of the four dimension scores of that report: move_forward from 4, hold
\* from 3, else reject.
C23_RecommendationOfReportedScores ==
    \A report \in C23_CompletedReports :
        LET e == report.evaluation
            total == e.communication + e.technical + e.problem_solving + e.culture_fit
        IN  e.recommendation = IF total >= 4 * 4 THEN "move_forward"
                               ELSE IF total >= 3 * 4 THEN "hold"
                               ELSE "reject"

\* The sum of the scores of the turns of history at the positions of I.
RECURSIVE C24_Total(_, _)
C24_Total(history, I) ==
    IF I = {} THEN 0
    ELSE LET i == CHOOSE j \in I : TRUE
         IN  history[i].score + C24_Total(history, I \ {i})

\* v is the mean score of the turns of the given kinds, or of all turns when
\* there is none of these kinds, rounded to the nearest integer (to either
\* one when the mean is half-way between two).
C24_RoundedMean(v, history, kinds) ==
    LET of_kind == {i \in DOMAIN history : history[i].type \in kinds}
        I == IF of_kind = {} THEN DOMAIN history ELSE of_kind
        n == Cardinality(I)
        total == C24_Total(history, I)
    IN  /\ 2 * (v * n - total) <= n
        /\ 2 * (total - v * n) <= n

\* C24: the evaluation generated when the gateway supplies no report has
\* communication = the score of the most recent turn, technical = the mean
\* over the technical and follow-up turns, problem_solving = the mean over
\* the behavioral and follow-up turns, culture_fit = the mean over the
\* behavioral turns, an empty subset replaced by the overall mean and every
\* value rounded to the nearest integer; with scores from 1 to 5 every
\* dimension is from 1 to 5.
C24_GeneratedDimensions ==
    \A report \in C23_CompletedReports :
        LET e == report.evaluation
            h == state.history
        IN  /\ llm_result.final_json = <<>>
            /\ h # <<>>
            /\ e.communication = h[Len(h)].score
            /\ C24_RoundedMean(e.technical, h, {"technical", "followup"})
            /\ C24_RoundedMean(e.problem_solving, h, {"behavioral", "followup"})
            /\ C24_RoundedMean(e.culture_fit, h, {"behavioral"})
            /\ \A d \in {"communication", "technical", "problem_solving", "culture_fit"} :
                   e[d] \in 1..5

\* A report generated from a history without behavioral turn, whose culture_fit
\* is the overall mean 2.5 rounded to 2 and whose technical is the 4 of its
\* one technical turn.
C24_Witness ==
    \E report \in C23_CompletedReports :
        /\ Len(state.history) = 2
        /\ \A i \in DOMAIN state.history : state.history[i].type # "behavioral"
        /\ report.evaluation.culture_fit = 2
        /\ report.evaluation.technical = 4

\* The kinds of the report messages of a pass, in the order they are sent.
C25_ReportKinds(msgs) ==
    LET reports == SelectSeq(msgs, LAMBDA m : m.type \in C22_ReportMessages)
    IN  [i \in DOMAIN reports |-> reports[i].type]

\* C25: every session that reaches the terminal state, by the ending
\* decision of a turn or by a denied consent, emits once each and in this
\* order the summary, the json_report, the forward to the company endpoint
\* (when one is configured) and done, and closes the channel.
C25_TerminalSequenceInOrder ==
    [][(\/ "consent_denied" \in log'
        \/ TurnTaken /\ ShouldEnd(state', llm_result', elapsed_time'))
          => /\ pc' = "Closed"
             /\ C25_ReportKinds(sent') \in
                    {<<"summary", "json_report", "company_report", "done">>,
                     <<"summary", "json_report", "done">>}
             /\ sent'[Len(sent')].type = "done"]_vars

\* C26: the company endpoint never changes the outcome of a session: in
\* every pass that emits the json_report and finds the transport up, whether
\* the endpoint is unset, answers or fails, nothing but the forward and done
\* follows the json_report, done is the last message and the channel is
\* closed.
C26_SinkNeverChangesOutcome ==
    [][\A i \in DOMAIN sent' :
           (sent'[i].type = "json_report" /\ pc' # "Disconnected")
               => /\ pc' = "Closed"
                  /\ sent'[Len(sent')].type = "done"
                  /\ \A j \in (i + 1)..Len(sent') :
                         sent'[j].type \in {"company_report", "done"}
                  /\ Cardinality({j \in DOMAIN sent' : sent'[j].type = "done"}) = 1]_vars

\* A completed interview whose report the company endpoint failed to take:
\* the json_report and the failed forward are followed by done.
C26_Witness ==
    /\ pc = "Closed"
    /\ Len(state.history) >= 1
    /\ \E i \in DOMAIN sent :
           /\ sent[i].type = "company_report" /\ sent[i].result = "failed"
           /\ sent[i - 1].type = "json_report"
           /\ sent[i + 1].type = "done"

\* The reply of the stub gateway that a TurnRecord of a session of SpecReport
\* records: its score and its kind of question.
C27_Reply(record) ==
    [BaseReply EXCEPT !.answer_score = <<record.score>>,
                      !.question_type = record.type,
                      !.final_summary = "Strong candidate."]

\* The second run up to the granted consent, from the same start payload and
\* the same consent answer.
C27_AfterConsent(resume) ==
    LET start == StartOutcome([type |-> "start", data |-> "valid", resume |-> <<resume>>],
                              NONE)
    IN  ConsentOutcome(AfterTranscript(start.state, A_YES_SURE), start.current_question,
                       A_YES_SURE, "granted", "unset")

\* The second run after its first n turns: the answers and the replies are
\* those the records of history record, the clock reads 0 before the last
\* turn and elapsed at the last.
RECURSIVE C27_Rerun(_, _, _, _)
C27_Rerun(resume, history, n, elapsed) ==
    IF n = 0 THEN C27_AfterConsent(resume)
    ELSE The({TurnOutcome(before.state, before.current_question,
                          [bytes |-> MIN_AUDIO_BYTES, stt |-> history[n].a],
                          C27_Reply(history[n]),
                          IF n = Len(history) THEN elapsed ELSE 0, "ok").rest.end :
                before \in {C27_Rerun(resume, history, n - 1, elapsed)}})

C28_BadStartClosesWithoutSession ==
    [][\A m \in StartMsgs :
           (/\ m.type # "start" \/ (m.data = "valid" /\ m.resume = <<>>)
            /\ StartSession(m, NONE))
               => /\ Len(sent') = 1
                  /\ sent'[1].type = "error"
                  /\ pc' = "Closed"
                  /\ ~has_state'
                  /\ state' = NoSessionState
                  /\ current_question' = NONE
                  /\ tts' = <<>>]_vars

\* The session of a start message without resume profile: one error message,
\* the channel closed, no SessionState.
C28_Witness ==
    /\ pc = "Closed"
    /\ ~has_state
    /\ sent = <<ErrorMsg("Resume is required to start interview")>>

\* C29: a pass of the consent exchange whose answer the classifier calls
\* unclear, or whose classification request fails, sends the clarifying
\* consent prompt as the one question_text of the pass, starts its speech,
\* makes it the current question and waits for the next answer with the
\* session still in the consent exchange: every field of the SessionState is
\* as before the pass.
C29_UnclearConsentKeepsState ==
    [][\A answer \in Answers, reply \in {"unclear", CONSENT_REQUEST_FAILED},
          sink \in Sinks, elapsed \in TimePoints :
           ConsentAnswer(answer, reply, sink, elapsed)
               => /\ state' = state
                  /\ ~state'.consent_given
                  /\ state'.history = <<>>
                  /\ has_state'
                  /\ pc' = "AwaitAnswer"
                  /\ sent' = <<TextMsg("question_text", CONSENT_CLARIFICATION)>>
                  /\ current_question' = CONSENT_CLARIFICATION
                  /\ tts' = tts \o SpeechOf(sent')
                  /\ Len(tts') = Len(tts) + 1]_vars

\* The session after an unclear consent answer: the clarifying prompt is the
\* current question and the session is still in the consent exchange.
C29_Witness ==
    /\ pc = "AwaitAnswer"
    /\ has_state
    /\ InConsentExchange(state)
    /\ "consent_unclear" \in log
    /\ current_question = CONSENT_CLARIFICATION
    /\ sent = <<TextMsg("question_text", CONSENT_CLARIFICATION)>>

\* C30: every question_text sent by a pass over an answer carries a question
\* that is present and has at least one character after stripping, whether
\* the reasoning gateway answered, failed, or answered with a question that
\* is missing, empty, blank or too short.
C30_QuestionTextNeverEmpty ==
    calls # <<>> =>
        \A i \in DOMAIN sent :
            sent[i].type = "question_text"
                => /\ sent[i].text # NONE
                   /\ sent[i].text # ""
                   /\ StripLen(sent[i].text) > 0

\* A turn whose reply carried a blank question and that asked the fallback
\* question instead.
C30_Witness ==
    /\ calls = TurnCalls
    /\ llm_result.next_question = Q_BLANK
    /\ pc = "AwaitAnswer"
    /\ \E i \in DOMAIN sent : sent[i] = TextMsg("question_text", EMPTY_FALLBACK_QUESTION)

(***************************************************************************)
(* The records of history, the counters and the flags.                     *)
(***************************************************************************)

\* C31: every TurnRecord of history carries a question type that is one of
\* intro, technical, behavioral, followup, clarification, whatever the
\* reasoning gateway returned as question_type.
C31_HistoryTypesAreKnown ==
    \A i \in DOMAIN state.history :
        state.history[i].type \in {"intro", "technical", "behavioral", "followup", "clarification"}

\* The length of the longest suffix of history whose scores are all low.
C32_LowSuffix(history) ==
    CHOOSE n \in 0..Len(history) :
        /\ \A i \in (Len(history) - n + 1)..Len(history) : history[i].score <= LOW_SCORE
        /\ n < Len(history) => history[Len(history) - n].score > LOW_SCORE

\* C32: struggle_streak is the length of the longest suffix of history whose
\* scores are all at most 2: a turn with a low score adds one, any other
\* turn, a turn on the fallback decision among them, resets it to 0.
C32_StreakIsLowSuffix ==
    has_state => state.struggle_streak = C32_LowSuffix(state.history)

\* A session whose low-scored first turn was followed by a turn on the
\* fallback decision: the streak is back at 0.
C32_Witness ==
    /\ Len(state.history) = 2
    /\ state.history[1].score <= LOW_SCORE
    /\ "llm_failed" \in log
    /\ state.struggle_streak = 0

\* C33: as long as consent is not granted, no pass has issued the reasoning
\* call and history is empty; a pass of a session without consent changes
\* no field of the SessionState but consent_given; and consent_given, once
\* true, stays true.
C33_NothingBeforeConsent ==
    /\ [](~state.consent_given
              => /\ "call_llm.start" \notin Range(calls)
                 /\ llm_result = NoLlmResult
                 /\ state.history = <<>>)
    /\ [][/\ (has_state /\ ~state.consent_given)
                 => [state' EXCEPT !.consent_given = FALSE] = state
          /\ state.consent_given => state'.consent_given]_vars

\* The session just after consent was granted: the consent classifier was
\* called, the reasoning gateway was not, and only consent_given has changed
\* since the session was created.
C33_Witness ==
    /\ state.consent_given
    /\ calls = ConsentCalls
    /\ llm_result = NoLlmResult
    /\ state = GrantConsent(NewSessionState(state.resume_context))
    /\ sent[Len(sent)] = TextMsg("question_text", INTRO_QUESTION)

C35_ReturnedTypes ==
    {state.history[i].type : i \in DOMAIN state.history}

\* C35: has_asked_intro (has_asked_behavioral) is true exactly when some turn
\* of the session had a reasoning decision of question type intro
\* (behavioral), and once true it stays true; answering the fixed
\* self-introduction question that follows consent does not set
\* has_asked_intro; so a session that a turn ends on the strong-signal rule
\* alone has had the type intro returned at least once.
C35_FlagsFollowReturnedTypes ==
    /\ [](has_state
             => /\ state.has_asked_intro <=> "intro" \in C35_ReturnedTypes
                /\ state.has_asked_behavioral <=> "behavioral" \in C35_ReturnedTypes
                /\ (/\ pc \in {"Closed", "Failed"}
                    /\ "turn_result" \in Types(sent)
                    /\ ~can_end_based_on_llm(state, llm_result, elapsed_time)
                    /\ ~has_weak_signals(state.history)
                    /\ elapsed_time < MAX_INTERVIEW_DURATION)
                       => /\ has_strong_signals(state.history)
                          /\ "intro" \in C35_ReturnedTypes)
    /\ [][/\ (has_state /\ state.has_asked_intro) => state'.has_asked_intro
          /\ (has_state /\ state.has_asked_behavioral) => state'.has_asked_behavioral]_vars

\* A turn that ended the session on the strong-signal rule alone, after the
\* gateway had returned the types intro and behavioral.
C35_Witness ==
    /\ pc \in {"Closed", "Failed"}
    /\ "turn_result" \in Types(sent)
    /\ ~llm_result.end_interview
    /\ elapsed_time = MIN_INTERVIEW_DURATION
    /\ has_strong_signals(state.history)
    /\ ~has_weak_signals(state.history)
    /\ state.has_asked_intro /\ state.has_asked_behavioral
    /\ state.history[1].q = INTRO_QUESTION

(***************************************************************************)
(* The speech tasks and the end of the session.                            *)
(***************************************************************************)

C37_OneReadyPerQuestion ==
    [][\A i \in DOMAIN tts :
           (/\ tts[i].ready
            /\ TtsCompletes(i) \/ TtsReadyAfterError(i) \/ SafetyTimeout(i))
               => ReadyMsg \notin Range(sent')]_vars

(***************************************************************************)
(* The questions and the end flag of a turn.                               *)
(***************************************************************************)

\* C38: no question_text sent by a turn carries a question that equals,
\* lower-cased and stripped, the question of a record of history, the
\* alternative follow-up that replaces a detected repeat included.
C38_NoQuestionAskedTwice ==
    calls = TurnCalls =>
        \A i \in DOMAIN sent :
            sent[i].type = "question_text"
                => \A j \in DOMAIN state.history :
                       LowerStrip(sent[i].text) # LowerStrip(state.history[j].q)

\* C39: the end flag of a turn_result is true if and only if the session
\* ends in the pass that sends it: the terminal sequence follows it, and no
\* next question_text.
C39_EndFlagIffSessionEnds ==
    \A i \in DOMAIN sent :
        sent[i].type = "turn_result"
            => (sent[i].end_interview <=> "question_text" \notin Types(sent))
====
